---- MODULE Spec2Model ----
(***************************************************************************)
(* pwman: a master-password protected credential vault (work03).           *)
(* One command invocation is one process; the SQLite file, its two tables  *)
(* and the export target files outlive it.  The model follows pwman.mts    *)
(* statement by statement: every database statement and every file system  *)
(* call is a step of its own, so that a failure or a kill can fall between *)
(* any two of them.                                                         *)
(***************************************************************************)
EXTENDS Integers, Sequences, FiniteSets, TLC

\* ------------------------------------------------------------------------
\* Bounds of the model
\* ------------------------------------------------------------------------
\* crypto.randomBytes(16) for salts is drawn from 1..MaxSalt
MaxSalt == 2
\* crypto.randomBytes(12) for nonces is drawn from 1..MaxNonce
MaxNonce == 1
\* an import file holds at most MaxRows data lines
MaxRows == 2
\* suggestNonConflictingPath tries the names (1) .. (MaxCandidates)
MaxCandidates == 2
\* a decompressed log holds at most MaxText characters
MaxText == 4

Salts == 1..MaxSalt
Nonces == 1..MaxNonce

\* master passwords a caller may type; "" is the empty input
MasterPws == {"m1", "m2"}
AllPws == MasterPws \cup {""}
\* an argument that is not on the command line (undefined in the source)
NoArg == "<undefined>"

\* strings that reach the CSV codec are sequences of characters
TAB == "\t"
LF == "\n"
CR == "\r"
BOM == "<U+FEFF>"
COMMA == ","

ServiceVals == {<<"a">>, <<"b">>}
UsernameVals == {<<"u">>}
PasswordVals == {<<"p">>, <<"q">>}
\* a value add must refuse
ControlVals == {<<TAB>>}
\* a value with a comma in it, which add takes as any other
CommaVals == {<<"p", COMMA, "q">>}

\* ------------------------------------------------------------------------
\* exitHandler.mts, messages.mts
\* ------------------------------------------------------------------------
ExitCode ==
  [OK |-> 0, GENERAL_ERROR |-> 1, USAGE_ERROR |-> 2, AUTH_ERROR |-> 3,
   IO_DB_ERROR |-> 4]

\* the status of a process: no exit code while it runs or when it was killed,
\* the argument of process.exit(code) otherwise
NoExit == <<>>
Exited(code) == <<code>>

DbState ==
  [NO_DB |-> "NO_DB", UNINITIALIZED |-> "UNINITIALIZED", READY |-> "READY",
   CORRUPTED |-> "CORRUPTED"]

NoMsg == <<>>

\* exitWith writes the message, if any, to stdout for code 0 and to stderr
\* otherwise (and then throws {code})
Emit(o, code, msg) ==
  IF msg = NoMsg THEN o
  ELSE Append(o, [fd |-> IF code = ExitCode.OK THEN "stdout" ELSE "stderr",
                  text |-> msg])

\* ------------------------------------------------------------------------
\* credentialCrypto.mts (PBKDF2, SHA-256 and AES-256-GCM are ideal: equal
\* outputs only for equal inputs)
\* ------------------------------------------------------------------------
deriveKey(masterPw, salt) == <<"pbkdf2", masterPw, salt>>

\* faulty variant: the key itself stands for its fingerprint
hashDerivedKeyIsKey(key) == key

hashDerivedKey(key) == <<"sha256", key>>

GcmCipher(plain, key, iv) == [k |-> key, iv |-> iv, p |-> plain]
GcmTag(ct, key, iv) == <<"tag", key, iv, ct>>

\* iv is the fresh random nonce of this call
encrypt(plain, key, iv) ==
  [iv |-> iv, tag |-> GcmTag(GcmCipher(plain, key, iv), key, iv),
   ct |-> GcmCipher(plain, key, iv)]

\* decipher.final() throws unless the tag verifies under (key, iv)
decrypt(cipherText, key) ==
  IF cipherText.tag = GcmTag(cipherText.ct, key, cipherText.iv)
  THEN [ok |-> TRUE, plain |-> cipherText.ct.p]
  ELSE [ok |-> FALSE, plain |-> <<>>]

\* ------------------------------------------------------------------------
\* db.mts: the tables of pwman.db
\* ------------------------------------------------------------------------
EmptyTables ==
  [hasMaster |-> FALSE, hasCredentials |-> FALSE, master |-> {},
   credentials |-> {}]

\* CREATE TABLE IF NOT EXISTS credentials ...; CREATE TABLE IF NOT EXISTS master
SCHEMA_SQL(t) == [t EXCEPT !.hasMaster = TRUE, !.hasCredentials = TRUE]

\* INSERT INTO master (id, password_hash, salt) VALUES (1, ?, ?)
\* id is the primary key: a second row with id 1 is a constraint failure
InsertMasterOk(t) == t.hasMaster /\ \A r \in t.master : r.id # 1
InsertMaster(t, hash, salt) ==
  [t EXCEPT !.master = @ \cup {[id |-> 1, password_hash |-> hash, salt |-> salt]}]

\* faulty variant: the UPDATE sets the hash and leaves the salt
UpdateMasterKeepsSalt(t, hash, salt) ==
  [t EXCEPT !.master =
     {IF r.id = 1 THEN [r EXCEPT !.password_hash = hash] ELSE r : r \in @}]

\* faulty variant: the master row is deleted instead of updated
UpdateMasterDeletesRow(t, hash, salt) ==
  [t EXCEPT !.master = {r \in @ : r.id # 1}]

\* UPDATE master SET password_hash=?, salt=? WHERE id=1
UpdateMaster(t, hash, salt) ==
  [t EXCEPT !.master =
     {IF r.id = 1 THEN [r EXCEPT !.password_hash = hash, !.salt = salt] ELSE r
        : r \in @}]

\* PRIMARY KEY (service, username)
HasKey(t, service, username) ==
  \E r \in t.credentials : r.service = service /\ r.username = username

\* faulty variant: a credentials table without its primary key
InsertCredentialOkNoKey(t, service, username) == t.hasCredentials

InsertCredentialOk(t, service, username) ==
  t.hasCredentials /\ ~HasKey(t, service, username)
InsertCredential(t, service, username, password) ==
  [t EXCEPT !.credentials =
     @ \cup {[service |-> service, username |-> username, password |-> password]}]

\* faulty variant: the DELETE reports its row and leaves it
DeleteCredentialKeepsRow(t, service, username) == t

\* DELETE FROM credentials WHERE service=? AND username=?
DeleteCredential(t, service, username) ==
  [t EXCEPT !.credentials =
     {r \in @ : ~(r.service = service /\ r.username = username)}]
DeleteChanges(t, service, username) ==
  Cardinality({r \in t.credentials : r.service = service /\ r.username = username})

\* faulty variant: the DELETE removes nothing
DeleteAllCredentialsKeepsRows(t) == t

\* DELETE FROM credentials
\* faulty variant: the master table is emptied along with the credentials
DeleteAllTables(t) == [t EXCEPT !.credentials = {}, !.master = {}]

DeleteAllCredentials(t) == [t EXCEPT !.credentials = {}]

\* the rows of a SELECT without ORDER BY, in the order the engine gives them
Rows(table) ==
  {rows \in [1..Cardinality(table) -> table] :
     \A i, j \in 1..Cardinality(table) : i # j => rows[i] # rows[j]}

\* faulty variant: a ROLLBACK that keeps the changes of the transaction
RollbackKeepsChanges(t, snap) == t

\* ROLLBACK puts back what BEGIN saw
Rollback(t, snap) == snap

\* ------------------------------------------------------------------------
\* dbState.mts
\* ------------------------------------------------------------------------
\* faulty variant: the tables are looked at before the integrity check
checkDbStateTablesFirst(fileExists, integrityOk, t) ==
  IF ~fileExists THEN DbState.NO_DB
  ELSE IF ~t.hasMaster /\ ~t.hasCredentials THEN DbState.UNINITIALIZED
  ELSE IF ~integrityOk THEN DbState.CORRUPTED
  ELSE IF t.hasMaster # t.hasCredentials THEN DbState.CORRUPTED
  ELSE IF Cardinality(t.master) = 0 THEN DbState.UNINITIALIZED
  ELSE IF Cardinality(t.master) = 1 THEN DbState.READY
  ELSE DbState.CORRUPTED

\* existsSync; PRAGMA integrity_check (not 'ok', or a throw, is CORRUPTED);
\* tableExists('master'), tableExists('credentials'); COUNT(*) of master
checkDbState(fileExists, integrityOk, t) ==
  IF ~fileExists THEN DbState.NO_DB
  ELSE IF ~integrityOk THEN DbState.CORRUPTED
  ELSE IF ~t.hasMaster /\ ~t.hasCredentials THEN DbState.UNINITIALIZED
  ELSE IF t.hasMaster # t.hasCredentials THEN DbState.CORRUPTED
  ELSE IF Cardinality(t.master) = 0 THEN DbState.UNINITIALIZED
  ELSE IF Cardinality(t.master) = 1 THEN DbState.READY
  ELSE DbState.CORRUPTED

\* ------------------------------------------------------------------------
\* master.mts, utils.mts
\* ------------------------------------------------------------------------
MasterRow(t) == CHOOSE r \in t.master : r.id = 1
HasMasterRow(t) == \E r \in t.master : r.id = 1

\* timingSafeEqual of the two hex digests
verifyMasterPassword(inputPw, t) ==
  hashDerivedKey(deriveKey(inputPw, MasterRow(t).salt)) = MasterRow(t).password_hash

getMasterSalt(t) == MasterRow(t).salt

\* args[idx + 1] counts only when it is there and not the empty string
getOption(v) == IF v # NoArg /\ v # "" THEN v ELSE NoArg

\* --master <pw> when given and non-empty, the typed (trimmed) answer otherwise
getMasterPassword(opt, typed) == IF getOption(opt) # NoArg THEN opt ELSE typed

RECURSIVE HasControlChar(_)
HasControlChar(s) ==
  IF s = <<>> THEN FALSE
  ELSE Head(s) \in {TAB, CR, LF} \/ HasControlChar(Tail(s))

\* /[\t\r\n]/ tested on every value
validateNoControlChars(values) ==
  \A i \in 1..Len(values) : ~HasControlChar(values[i])

\* ------------------------------------------------------------------------
\* csvSpec.mts
\* ------------------------------------------------------------------------
CsvHeader ==
  <<"s", "e", "r", "v", "i", "c", "e", COMMA, "u", "s", "e", "r", "n", "a",
    "m", "e", COMMA, "p", "a", "s", "s", "w", "o", "r", "d">>
CsvColumns == 3

\* String.prototype.split on a one-character separator
RECURSIVE Split(_, _)
Split(s, sep) ==
  IF \A i \in 1..Len(s) : s[i] # sep THEN <<s>>
  ELSE LET i == CHOOSE j \in 1..Len(s) :
                  s[j] = sep /\ \A k \in 1..(j - 1) : s[k] # sep
       IN <<SubSeq(s, 1, i - 1)>> \o Split(SubSeq(s, i + 1, Len(s)), sep)

\* Array.prototype.join
RECURSIVE Join(_, _)
Join(parts, sep) ==
  IF parts = <<>> THEN <<>>
  ELSE IF Len(parts) = 1 THEN parts[1]
  ELSE parts[1] \o <<sep>> \o Join(Tail(parts), sep)

CsvLine(r) == r.service \o <<COMMA>> \o r.username \o <<COMMA>> \o r.password

\* faulty variant: every line, the last one too, ends with LF
buildCsvTrailingNewline(records) ==
  IF \E i \in 1..Len(records) :
       ~validateNoControlChars(<<records[i].service, records[i].username,
                                 records[i].password>>)
  THEN [ok |-> FALSE, code |-> ExitCode.GENERAL_ERROR, msg |-> <<"controlChar">>]
  ELSE [ok |-> TRUE,
        csv |-> Join(<<CsvHeader>> \o [i \in 1..Len(records) |-> CsvLine(records[i])],
                     LF) \o <<LF>>]

\* buildCsv: the header and one line per record, joined by LF; a record with
\* a control character ends the command with controlChar
buildCsv(records) ==
  IF \E i \in 1..Len(records) :
       ~validateNoControlChars(<<records[i].service, records[i].username,
                                 records[i].password>>)
  THEN [ok |-> FALSE, code |-> ExitCode.GENERAL_ERROR, msg |-> <<"controlChar">>]
  ELSE [ok |-> TRUE,
        csv |-> Join(<<CsvHeader>> \o [i \in 1..Len(records) |-> CsvLine(records[i])],
                     LF)]

\* faulty variant: a row needs three columns at least, the rest is dropped
RECURSIVE ParseRowsAtLeast(_, _, _)
ParseRowsAtLeast(lines, i, records) ==
  IF i > Len(lines) THEN [ok |-> TRUE, records |-> records]
  ELSE IF lines[i] = <<>> /\ i = Len(lines) THEN ParseRowsAtLeast(lines, i + 1, records)
  ELSE IF lines[i] = <<>>
    THEN [ok |-> FALSE, code |-> ExitCode.GENERAL_ERROR,
          msg |-> <<"invalidImportLine", i>>]
  ELSE LET parts == Split(lines[i], COMMA) IN
    IF Len(parts) < CsvColumns
    THEN [ok |-> FALSE, code |-> ExitCode.GENERAL_ERROR,
          msg |-> <<"invalidImportFormat">>]
    ELSE IF ~validateNoControlChars(parts)
    THEN [ok |-> FALSE, code |-> ExitCode.GENERAL_ERROR, msg |-> <<"controlChar">>]
    ELSE ParseRowsAtLeast(lines, i + 1,
           Append(records, [service |-> parts[1], username |-> parts[2],
                            password |-> parts[3]]))

\* the loop over the data lines of parseCsvFileStrict, from line index i (the
\* header is lines[1] here, lines[0] in the source)
RECURSIVE ParseRows(_, _, _)
ParseRows(lines, i, records) ==
  IF i > Len(lines) THEN [ok |-> TRUE, records |-> records]
  ELSE IF lines[i] = <<>> /\ i = Len(lines) THEN ParseRows(lines, i + 1, records)
  ELSE IF lines[i] = <<>>
    THEN [ok |-> FALSE, code |-> ExitCode.GENERAL_ERROR,
          msg |-> <<"invalidImportLine", i>>]
  ELSE LET parts == Split(lines[i], COMMA) IN
    IF Len(parts) # CsvColumns
    THEN [ok |-> FALSE, code |-> ExitCode.GENERAL_ERROR,
          msg |-> <<"invalidImportFormat">>]
    ELSE IF ~validateNoControlChars(parts)
    THEN [ok |-> FALSE, code |-> ExitCode.GENERAL_ERROR, msg |-> <<"controlChar">>]
    ELSE ParseRows(lines, i + 1,
           Append(records, [service |-> parts[1], username |-> parts[2],
                            password |-> parts[3]]))

\* file: [csvExt, exists, isDir, text]; the result is the records or the
\* exitWith the parser ends in
parseCsvFileStrict(file) ==
  IF ~file.csvExt
  THEN [ok |-> FALSE, code |-> ExitCode.USAGE_ERROR, msg |-> <<"csvExtensionRequired">>]
  ELSE IF ~file.exists
  THEN [ok |-> FALSE, code |-> ExitCode.IO_DB_ERROR, msg |-> <<"csvImportFileNotFound">>]
  ELSE IF file.isDir
  THEN [ok |-> FALSE, code |-> ExitCode.USAGE_ERROR,
        msg |-> <<"csvImportSourceIsDirectory">>]
  ELSE IF file.text # <<>> /\ file.text[1] = BOM
  THEN [ok |-> FALSE, code |-> ExitCode.GENERAL_ERROR, msg |-> <<"csvBomNotAllowed">>]
  ELSE IF \E i \in 1..Len(file.text) : file.text[i] = CR
  THEN [ok |-> FALSE, code |-> ExitCode.GENERAL_ERROR, msg |-> <<"csvCrlfNotAllowed">>]
  ELSE LET lines == Split(file.text, LF) IN
    IF Len(lines) = 0 \/ lines[1] = <<>>
    THEN [ok |-> FALSE, code |-> ExitCode.GENERAL_ERROR, msg |-> <<"csvEmpty">>]
    ELSE IF lines[1] # CsvHeader
    THEN [ok |-> FALSE, code |-> ExitCode.GENERAL_ERROR,
          msg |-> <<"csvInvalidHeader", CsvHeader, lines[1]>>]
    ELSE ParseRows(lines, 2, <<>>)

\* ------------------------------------------------------------------------
\* State
\* ------------------------------------------------------------------------
VARIABLES
  pc,         \* position of the running command; "idle" before the first one
  loc,        \* local variables of the running command
  err,        \* the value thrown and not yet caught
  dbFile,     \* pwman.db exists
  integrity,  \* PRAGMA integrity_check answers ok
  fs,         \* the files export looks at and writes
  dbOpen,     \* dbInstance of this process is set
  store,      \* the tables as this connection sees them
  tx,         \* the open transaction and what it rolls back to
  out,        \* what this process wrote to stdout and stderr
  exitCode,   \* process exit code
  trace,      \* the calls this process made, in order
  pre,        \* what was persisted when this process started
  fault       \* the storage failure this process ran into, if any

vars ==
  <<pc, loc, err, dbFile, integrity, fs, dbOpen, store, tx, out, exitCode, trace,
    pre, fault>>

\* the files of an export: the requested target, the numbered alternative
\* and the temporary file of each
Target == <<"out.csv">>
Candidate(i) == <<"out (", i, ").csv">>
TmpOf(path) == Append(path, ".tmp")
Paths ==
  LET named == {Target} \cup {Candidate(i) : i \in 1..MaxCandidates}
  IN named \cup {TmpOf(path) : path \in named}
Absent == <<"<absent>">>
Directory == <<"<directory>">>
OldContent == <<"<old content>">>
NoFiles == [p \in Paths |-> Absent]

NoExport == [written |-> FALSE, text |-> <<>>]
NoTx == [active |-> FALSE, snap |-> EmptyTables]
NoErr == [kind |-> "none", code |-> 0]
ExitErr(code) == [kind |-> "exit", code |-> code]
SqliteErr(what) == [kind |-> what, code |-> 0]
NoFault == [at |-> "none", i |-> 0]

NoEnvelope == [iv |-> 0, tag |-> <<>>, ct |-> <<>>]

NoLoc ==
  [cmd |-> "none", shape |-> "none", masterPw |-> "", service |-> <<>>,
   username |-> <<>>, password |-> <<>>, records |-> <<>>, i |-> 0,
   encrypted |-> NoEnvelope, newPw |-> "", newSalt |-> 0,
   orderBy |-> "service", order |-> "ASC", csvPath |-> <<>>, csv |-> <<>>,
   malformed |-> FALSE, flag |-> "", column |-> "", input |-> <<>>,
   fromExport |-> FALSE, fileBad |-> FALSE, buffer |-> <<>>, lines |-> <<>>]

\* what the next process to open pwman.db will find
Persisted == IF tx.active THEN tx.snap ELSE store
\* what a run finds when it starts; expected and master are the record of
\* the runs before it (see Expected and CurrentMaster)
Snapshot ==
  [dbFile |-> dbFile, integrity |-> integrity, tables |-> Persisted, fs |-> NoFiles,
   expected |-> {}, master |-> "", exported |-> NoExport]

Commands ==
  {"init", "add", "get", "del", "list", "status", "export", "import",
   "change-master", "help", "unknown"}

Entry(cmd) ==
  CASE cmd = "init" -> "init_args"
    [] cmd = "add" -> "add_args"
    [] cmd = "get" -> "get_args"
    [] cmd = "del" -> "del_args"
    [] cmd = "list" -> "list_args"
    [] cmd = "status" -> "status_args"
    [] cmd = "export" -> "export_args"
    [] cmd = "import" -> "import_args"
    [] cmd = "change-master" -> "cm_args"
    [] OTHER -> "main_default"

Init ==
  /\ pc = "idle"
  /\ loc = NoLoc
  /\ err = NoErr
  /\ dbFile = FALSE
  /\ integrity = TRUE
  /\ fs = NoFiles
  /\ dbOpen = FALSE
  /\ store = EmptyTables
  /\ tx = NoTx
  /\ out = <<>>
  /\ exitCode = NoExit
  /\ trace = <<>>
  /\ pre = Snapshot
  /\ fault = NoFault

\* ------------------------------------------------------------------------
\* Fragments shared by the steps
\* ------------------------------------------------------------------------
\* go on to the next statement
Goto(next, events) ==
  /\ pc' = next
  /\ trace' = trace \o events
  /\ UNCHANGED <<err, out, exitCode>>

\* exitWith(code, message): write, then throw {code} to the handler in scope
exitWith(code, msg, handler, events) ==
  /\ out' = Emit(out, code, msg)
  /\ err' = ExitErr(code)
  /\ pc' = handler
  /\ trace' = trace \o events \o <<"exitWith">>
  /\ UNCHANGED exitCode

\* a statement of node:sqlite throws
Throw(what, handler, events) ==
  /\ err' = SqliteErr(what)
  /\ pc' = handler
  /\ trace' = trace \o events
  /\ UNCHANGED <<out, exitCode>>

\* the storage fails under a statement (disk full, I/O error): the statement
\* throws and has changed no row
StorageFault(handler, events) ==
  /\ fault = NoFault
  /\ fault' = [at |-> pc, i |-> loc.i]
  /\ Throw("SQLITE_IOERR", handler, events)
  /\ UNCHANGED <<store, tx>>

\* the process ends: the connection is closed and an open transaction is
\* never seen again
ProcessExit(status) ==
  /\ pc' = "done"
  /\ exitCode' = status
  /\ store' = Persisted
  /\ tx' = NoTx
  /\ dbOpen' = FALSE

\* ------------------------------------------------------------------------
\* main
\* ------------------------------------------------------------------------
\* The record of the runs so far, kept beside the program: the plaintext
\* triples the successful add, del and import runs have left, and the master
\* password the last successful init or change-master has set.  A run that was
\* killed is none of these operations: after it the record is taken from what
\* the file holds.
Expected ==
  IF pc # "done" THEN pre.expected
  ELSE IF exitCode = NoExit
  THEN {[service |-> r.service, username |-> r.username, password |-> r.password.ct.p] :
          r \in Persisted.credentials}
  ELSE IF exitCode # Exited(ExitCode.OK) THEN pre.expected
  ELSE CASE loc.cmd = "init" -> {}
         [] loc.cmd = "add" ->
              {r \in pre.expected :
                 ~(r.service = loc.service /\ r.username = loc.username)}
                \cup {[service |-> loc.service, username |-> loc.username,
                        password |-> loc.password]}
         [] loc.cmd = "del" ->
              {r \in pre.expected :
                 ~(r.service = loc.service /\ r.username = loc.username)}
         [] loc.cmd = "import" /\ out[Len(out)].text[1] = "Success: imported" ->
              {loc.records[i] : i \in 1..Len(loc.records)}
         [] OTHER -> pre.expected

\* the file the run that has just ended exported, for the import that follows
Exported ==
  IF /\ pc = "done" /\ loc.cmd = "export" /\ exitCode = Exited(ExitCode.OK)
     /\ \E i \in 1..Len(trace) : trace[i] = "renameSync"
  THEN [written |-> TRUE, text |-> fs[loc.csvPath]]
  ELSE NoExport

CurrentMaster ==
  IF pc # "done" THEN pre.master
  ELSE IF exitCode = NoExit
  THEN IF HasMasterRow(Persisted) THEN MasterRow(Persisted).password_hash[2][2]
       ELSE ""
  ELSE IF exitCode # Exited(ExitCode.OK) THEN pre.master
  ELSE CASE loc.cmd = "init" -> loc.masterPw
         [] loc.cmd = "change-master" /\ out[Len(out)].text = <<"masterChanged">> ->
              loc.newPw
         [] OTHER -> pre.master

\* a new process: process.argv selects the command
main ==
  /\ pc \in {"idle", "done"}
  /\ \E cmd \in Commands :
       /\ loc' = [NoLoc EXCEPT !.cmd = cmd]
       /\ pc' = Entry(cmd)
       /\ pre' = [Snapshot EXCEPT
                    !.expected = Expected, !.master = CurrentMaster,
                    !.exported = IF cmd = "import" THEN Exported ELSE NoExport]
  /\ err' = NoErr
  /\ out' = <<>>
  /\ exitCode' = NoExit
  /\ trace' = <<>>
  /\ fault' = NoFault
  /\ fs' = NoFiles
  /\ UNCHANGED <<dbFile, integrity, dbOpen, store, tx>>

\* case 'help' and default of the switch
mainDefault ==
  /\ pc = "main_default"
  /\ IF loc.cmd = "help"
     THEN exitWith(ExitCode.OK, <<"usage.help">>, "main_catch", <<>>)
     ELSE exitWith(ExitCode.USAGE_ERROR, <<"Unknown command", "usage.help">>,
                   "main_catch", <<>>)
  /\ UNCHANGED <<loc, dbFile, integrity, fs, dbOpen, store, tx, pre, fault>>

\* catch (err) of main: {code} from exitWith ends the process with that code,
\* anything else is reported as unexpected and ends it with GENERAL_ERROR
mainCatch ==
  /\ pc = "main_catch"
  /\ IF err.kind = "exit"
     THEN /\ ProcessExit(Exited(err.code))
          /\ out' = out
     ELSE /\ ProcessExit(Exited(ExitCode.GENERAL_ERROR))
          /\ out' = Append(out, [fd |-> "stderr", text |-> <<"Unexpected error:", err.kind>>])
  /\ err' = NoErr
  /\ trace' = Append(trace, "exit")
  /\ UNCHANGED <<loc, dbFile, integrity, fs, pre, fault>>

\* the process is killed between two steps (SIGKILL, power loss): what it
\* held in memory is gone
Crash ==
  /\ pc \notin {"idle", "done"}
  /\ ProcessExit(NoExit)
  /\ err' = NoErr
  /\ loc' = [NoLoc EXCEPT !.cmd = loc.cmd]
  /\ trace' = <<"killed">>
  /\ out' = <<>>
  /\ fault' = NoFault
  /\ UNCHANGED <<dbFile, integrity, fs, pre>>

\* ------------------------------------------------------------------------
\* init
\* ------------------------------------------------------------------------
\* args.length === 1 || (args.length === 3 && args[1] === '--master')
cmdInitArgs ==
  /\ pc = "init_args"
  /\ \E shape \in {"prompt", "option", "bad"} :
       IF shape = "bad"
       THEN /\ exitWith(ExitCode.USAGE_ERROR, <<"usage.init">>, "main_catch", <<>>)
            /\ UNCHANGED loc
       ELSE /\ Goto("init_state", <<>>)
            /\ loc' = [loc EXCEPT !.shape = shape]
  /\ UNCHANGED <<dbFile, integrity, fs, dbOpen, store, tx, pre, fault>>

\* faulty variant: init does not look at the state it finds
cmdInitStateNoCheck ==
  /\ pc = "init_state"
  /\ Goto("init_password", <<"checkDbState">>)
  /\ dbOpen' = dbFile
  /\ UNCHANGED <<loc, dbFile, integrity, fs, store, tx, pre, fault>>

\* checkDbState opens the database when the file is there
cmdInitState ==
  /\ pc = "init_state"
  /\ LET state == checkDbState(dbFile, integrity, store) IN
       CASE state = DbState.READY ->
              exitWith(ExitCode.GENERAL_ERROR, <<"dbAlreadyInitialized">>,
                       "main_catch", <<"checkDbState">>)
         [] state = DbState.CORRUPTED ->
              exitWith(ExitCode.IO_DB_ERROR, <<"Database corrupted.">>,
                       "main_catch", <<"checkDbState">>)
         [] OTHER -> Goto("init_password", <<"checkDbState">>)
  /\ dbOpen' = dbFile
  /\ UNCHANGED <<loc, dbFile, integrity, fs, store, tx, pre, fault>>

\* faulty variant: an empty password is taken as any other
cmdInitPasswordTakesEmpty ==
  /\ pc = "init_password"
  /\ \E pw1 \in AllPws, pw2 \in AllPws :
       IF loc.shape = "prompt" /\ pw1 # pw2
       THEN /\ exitWith(ExitCode.USAGE_ERROR, <<"pwMismatch">>, "main_catch",
                        <<"askPassword", "askPassword">>)
            /\ UNCHANGED loc
       ELSE /\ Goto("init_open",
                    IF loc.shape = "prompt"
                    THEN <<"askPassword", "askPassword">> ELSE <<>>)
            /\ loc' = [loc EXCEPT !.masterPw = pw1]
  /\ UNCHANGED <<dbFile, integrity, fs, dbOpen, store, tx, pre, fault>>

\* args[2] or askNewMasterWithConfirm(); an empty password is refused
cmdInitPassword ==
  /\ pc = "init_password"
  /\ \E pw1 \in AllPws, pw2 \in AllPws :
       IF loc.shape = "prompt" /\ pw1 # pw2
       THEN /\ exitWith(ExitCode.USAGE_ERROR, <<"pwMismatch">>, "main_catch",
                        <<"askPassword", "askPassword">>)
            /\ UNCHANGED loc
       ELSE IF pw1 = ""
       THEN /\ exitWith(ExitCode.USAGE_ERROR, <<"emptyPassword">>, "main_catch",
                        IF loc.shape = "prompt"
                        THEN <<"askPassword", "askPassword">> ELSE <<>>)
            /\ UNCHANGED loc
       ELSE /\ Goto("init_open",
                    IF loc.shape = "prompt"
                    THEN <<"askPassword", "askPassword">> ELSE <<>>)
            /\ loc' = [loc EXCEPT !.masterPw = pw1]
  /\ UNCHANGED <<dbFile, integrity, fs, dbOpen, store, tx, pre, fault>>

\* openDb(): new DatabaseSync(DB_PATH) creates the file when it is missing
openDb ==
  /\ dbOpen' = TRUE
  /\ dbFile' = TRUE
  /\ integrity' = IF dbFile THEN integrity ELSE TRUE

cmdInitOpen ==
  /\ pc = "init_open"
  /\ openDb
  /\ Goto("init_begin", <<"openDb">>)
  /\ UNCHANGED <<loc, fs, store, tx, pre, fault>>

cmdInitBegin ==
  /\ pc = "init_begin"
  /\ \/ /\ tx' = [active |-> TRUE, snap |-> store]
        /\ Goto("init_schema", <<"BEGIN">>)
        /\ UNCHANGED <<store, fault>>
     \/ StorageFault("init_catch", <<"BEGIN">>)
  /\ UNCHANGED <<loc, dbFile, integrity, fs, dbOpen, pre>>

cmdInitSchema ==
  /\ pc = "init_schema"
  /\ \/ /\ store' = SCHEMA_SQL(store)
        /\ Goto("init_insert", <<"CREATE TABLE">>)
        /\ UNCHANGED <<tx, fault>>
     \/ StorageFault("init_catch", <<"CREATE TABLE">>)
  /\ UNCHANGED <<loc, dbFile, integrity, fs, dbOpen, pre>>

\* a fresh salt, the key derived from it, and the one master row
cmdInitInsert ==
  /\ pc = "init_insert"
  /\ \/ \E salt \in Salts :
          IF InsertMasterOk(store)
          THEN /\ store' = InsertMaster(store,
                              hashDerivedKey(deriveKey(loc.masterPw, salt)), salt)
               /\ Goto("init_commit", <<"INSERT master">>)
               /\ UNCHANGED <<tx, fault>>
          ELSE /\ Throw("SQLITE_CONSTRAINT", "init_catch", <<"INSERT master">>)
               /\ UNCHANGED <<store, tx, fault>>
     \/ StorageFault("init_catch", <<"INSERT master">>)
  /\ UNCHANGED <<loc, dbFile, integrity, fs, dbOpen, pre>>

cmdInitCommit ==
  /\ pc = "init_commit"
  /\ \/ /\ tx' = NoTx
        /\ Goto("init_ok", <<"COMMIT">>)
        /\ UNCHANGED <<store, fault>>
     \/ StorageFault("init_catch", <<"COMMIT">>)
  /\ UNCHANGED <<loc, dbFile, integrity, fs, dbOpen, pre>>

\* catch (err) { db.exec('ROLLBACK'); throw err; }: either err or the error of
\* a ROLLBACK without a transaction goes on to main
cmdInitCatch ==
  /\ pc = "init_catch"
  /\ IF tx.active
     THEN /\ store' = Rollback(store, tx.snap)
          /\ tx' = NoTx
          /\ err' = err
     ELSE /\ err' = SqliteErr("SQLITE_ERROR")
          /\ UNCHANGED <<store, tx>>
  /\ pc' = "main_catch"
  /\ trace' = Append(trace, "ROLLBACK")
  /\ UNCHANGED <<loc, dbFile, integrity, fs, dbOpen, out, exitCode, pre, fault>>

cmdInitOk ==
  /\ pc = "init_ok"
  /\ exitWith(ExitCode.OK, <<"dbInitialized">>, "main_catch", <<>>)
  /\ UNCHANGED <<loc, dbFile, integrity, fs, dbOpen, store, tx, pre, fault>>

cmdInit ==
  \/ cmdInitArgs \/ cmdInitState \/ cmdInitPassword \/ cmdInitOpen
  \/ cmdInitBegin \/ cmdInitSchema \/ cmdInitInsert \/ cmdInitCommit
  \/ cmdInitCatch \/ cmdInitOk

\* ------------------------------------------------------------------------
\* requireReadyState and the password of the authenticated commands
\* ------------------------------------------------------------------------
AfterReady(cmd) ==
  CASE cmd = "add" -> "add_read"
    [] cmd = "get" -> "get_read"
    [] cmd = "del" -> "del_read"
    [] cmd = "list" -> "list_sort"
    [] cmd = "export" -> "export_path"
    [] cmd = "import" -> "import_read"
    [] cmd = "change-master" -> "cm_read"
    [] OTHER -> "main_default"

\* faulty variant: UNINITIALIZED passes as READY does
requireReadyStateLax ==
  /\ pc = "require_ready"
  /\ LET state == checkDbState(dbFile, integrity, store) IN
       CASE state = DbState.NO_DB ->
              exitWith(ExitCode.IO_DB_ERROR, <<"Database not initialized.">>,
                       "main_catch", <<"checkDbState">>)
         [] state = DbState.CORRUPTED ->
              exitWith(ExitCode.IO_DB_ERROR, <<"Database corrupted.">>,
                       "main_catch", <<"checkDbState">>)
         [] OTHER -> Goto(AfterReady(loc.cmd), <<"checkDbState">>)
  /\ dbOpen' = dbFile
  /\ UNCHANGED <<loc, dbFile, integrity, fs, store, tx, pre, fault>>

\* only READY passes
requireReadyState ==
  /\ pc = "require_ready"
  /\ LET state == checkDbState(dbFile, integrity, store) IN
       CASE state \in {DbState.NO_DB, DbState.UNINITIALIZED} ->
              exitWith(ExitCode.IO_DB_ERROR, <<"Database not initialized.">>,
                       "main_catch", <<"checkDbState">>)
         [] state = DbState.CORRUPTED ->
              exitWith(ExitCode.IO_DB_ERROR, <<"Database corrupted.">>,
                       "main_catch", <<"checkDbState">>)
         [] OTHER -> Goto(AfterReady(loc.cmd), <<"checkDbState">>)
  /\ dbOpen' = dbFile
  /\ UNCHANGED <<loc, dbFile, integrity, fs, store, tx, pre, fault>>

\* what the caller gives for the master password: --master <value>, or
\* nothing (or an empty value) and then an answer typed at the prompt
MasterInputs ==
  {[opt |-> o, typed |-> ""] : o \in MasterPws}
    \cup {[opt |-> o, typed |-> t] : o \in {NoArg, ""}, t \in AllPws}

AskEvents(in) == IF getOption(in.opt) = NoArg THEN <<"askPassword">> ELSE <<>>

\* openDb(); if (!verifyMasterPassword(masterPw, db)) exitWith(AUTH_ERROR, ...)
Authenticate(masterPw, failMsg, next) ==
  /\ openDb
  /\ IF ~HasMasterRow(store)
     THEN exitWith(ExitCode.GENERAL_ERROR, <<"masterNotSet">>, "main_catch",
                   <<"openDb", "verifyMasterPassword">>)
     ELSE IF ~verifyMasterPassword(masterPw, store)
     THEN exitWith(ExitCode.AUTH_ERROR, failMsg, "main_catch",
                   <<"openDb", "verifyMasterPassword">>)
     ELSE Goto(next, <<"openDb", "verifyMasterPassword">>)

\* ------------------------------------------------------------------------
\* add
\* ------------------------------------------------------------------------
cmdAddArgs ==
  /\ pc = "add_args"
  /\ \E lengthOk \in BOOLEAN :
       IF lengthOk THEN Goto("require_ready", <<>>)
       ELSE exitWith(ExitCode.USAGE_ERROR, <<"usage.add">>, "main_catch", <<>>)
  /\ UNCHANGED <<loc, dbFile, integrity, fs, dbOpen, store, tx, pre, fault>>

\* the <service> <username> <password> a run of add is given
AddArgs ==
  {<<<<"a">>, <<"u">>, password>> : password \in PasswordVals \cup CommaVals}
    \cup {<<<<"b">>, <<"u">>, <<"q">>>>}
    \cup {<<service, <<"u">>, <<"p">>>> : service \in ControlVals}
    \cup {<<<<"a">>, <<"u">>, password>> : password \in ControlVals}

\* [_, service, username, password] = args; getMasterPassword(args, 4);
\* faulty variant: the three values are taken as they are
cmdAddReadNoValidation ==
  /\ pc = "add_read"
  /\ \E args \in AddArgs, in \in MasterInputs :
       /\ loc' = [loc EXCEPT !.service = args[1], !.username = args[2],
                              !.password = args[3],
                              !.masterPw = getMasterPassword(in.opt, in.typed)]
       /\ Goto("add_verify", AskEvents(in))
  /\ UNCHANGED <<dbFile, integrity, fs, dbOpen, store, tx, pre, fault>>

\* validateNoControlChars(service, username, password)
cmdAddRead ==
  /\ pc = "add_read"
  /\ \E args \in AddArgs, in \in MasterInputs :
     LET service == args[1]
         username == args[2]
         password == args[3]
     IN
       /\ loc' = [loc EXCEPT !.service = service, !.username = username,
                              !.password = password,
                              !.masterPw = getMasterPassword(in.opt, in.typed)]
       /\ IF validateNoControlChars(<<service, username, password>>)
          THEN Goto("add_verify", AskEvents(in))
          ELSE exitWith(ExitCode.GENERAL_ERROR, <<"controlChar">>, "main_catch",
                        AskEvents(in))
  /\ UNCHANGED <<dbFile, integrity, fs, dbOpen, store, tx, pre, fault>>

\* the password is sealed under the current key before the transaction
cmdAddVerify ==
  /\ pc = "add_verify"
  /\ Authenticate(loc.masterPw, <<"authFailed">>, "add_begin")
  /\ \E iv \in Nonces :
       loc' = [loc EXCEPT !.encrypted =
                 IF HasMasterRow(store) /\ verifyMasterPassword(loc.masterPw, store)
                 THEN encrypt(loc.password,
                              deriveKey(loc.masterPw, getMasterSalt(store)), iv)
                 ELSE NoEnvelope]
  /\ UNCHANGED <<fs, store, tx, pre, fault>>

cmdAddBegin ==
  /\ pc = "add_begin"
  /\ \/ /\ tx' = [active |-> TRUE, snap |-> store]
        /\ Goto("add_insert", <<"BEGIN">>)
        /\ UNCHANGED <<store, fault>>
     \/ StorageFault("add_catch", <<"BEGIN">>)
  /\ UNCHANGED <<loc, dbFile, integrity, fs, dbOpen, pre>>

\* INSERT INTO credentials (service, username, password) VALUES (?, ?, ?)
cmdAddInsert ==
  /\ pc = "add_insert"
  /\ \/ IF InsertCredentialOk(store, loc.service, loc.username)
        THEN /\ store' = InsertCredential(store, loc.service, loc.username,
                                           loc.encrypted)
             /\ Goto("add_commit", <<"INSERT">>)
             /\ UNCHANGED <<tx, fault>>
        ELSE /\ Throw("UNIQUE constraint failed", "add_catch", <<"INSERT">>)
             /\ UNCHANGED <<store, tx, fault>>
     \/ StorageFault("add_catch", <<"INSERT">>)
  /\ UNCHANGED <<loc, dbFile, integrity, fs, dbOpen, pre>>

cmdAddCommit ==
  /\ pc = "add_commit"
  /\ \/ /\ tx' = NoTx
        /\ Goto("add_ok", <<"COMMIT">>)
        /\ UNCHANGED <<store, fault>>
     \/ StorageFault("add_catch", <<"COMMIT">>)
  /\ UNCHANGED <<loc, dbFile, integrity, fs, dbOpen, pre>>

\* what the blocks of a command hold when its catch block rethrows: the
\* arguments stay, the locals of the try block are gone
Unwound == [loc EXCEPT !.i = 0, !.newSalt = 0, !.encrypted = NoEnvelope]

\* try { db.exec('ROLLBACK'); } catch {}: a ROLLBACK without a transaction
\* throws and is ignored
TryRollback ==
  IF tx.active
  THEN store' = Rollback(store, tx.snap) /\ tx' = NoTx
  ELSE UNCHANGED <<store, tx>>

\* faulty variant: the message of a duplicate key names the password too
cmdAddCatchNamesPassword ==
  /\ pc = "add_catch"
  /\ TryRollback
  /\ IF err.kind = "UNIQUE constraint failed"
     THEN exitWith(ExitCode.GENERAL_ERROR,
                   <<"Entry already exists:", loc.service, loc.username, loc.password>>,
                   "main_catch", <<"ROLLBACK">>)
     ELSE exitWith(ExitCode.IO_DB_ERROR, <<"ioError">>, "main_catch", <<"ROLLBACK">>)
  /\ loc' = Unwound
  /\ UNCHANGED <<dbFile, integrity, fs, dbOpen, pre, fault>>

\* catch (e): roll back, then tell a duplicate key from any other error
cmdAddCatch ==
  /\ pc = "add_catch"
  /\ TryRollback
  /\ IF err.kind = "UNIQUE constraint failed"
     THEN exitWith(ExitCode.GENERAL_ERROR,
                   <<"Entry already exists:", loc.service, loc.username>>,
                   "main_catch", <<"ROLLBACK">>)
     ELSE exitWith(ExitCode.IO_DB_ERROR, <<"ioError">>, "main_catch", <<"ROLLBACK">>)
  /\ loc' = Unwound
  /\ UNCHANGED <<dbFile, integrity, fs, dbOpen, pre, fault>>

cmdAddOk ==
  /\ pc = "add_ok"
  /\ exitWith(ExitCode.OK, <<"Added:", loc.service, loc.username>>, "main_catch", <<>>)
  /\ UNCHANGED <<loc, dbFile, integrity, fs, dbOpen, store, tx, pre, fault>>

cmdAdd ==
  \/ cmdAddArgs \/ cmdAddRead \/ cmdAddVerify \/ cmdAddBegin \/ cmdAddInsert
  \/ cmdAddCommit \/ cmdAddCatch \/ cmdAddOk

\* ------------------------------------------------------------------------
\* get
\* ------------------------------------------------------------------------
cmdGetArgs ==
  /\ pc = "get_args"
  /\ \E lengthOk \in BOOLEAN :
       IF lengthOk THEN Goto("require_ready", <<>>)
       ELSE exitWith(ExitCode.USAGE_ERROR, <<"usage.get">>, "main_catch", <<>>)
  /\ UNCHANGED <<loc, dbFile, integrity, fs, dbOpen, store, tx, pre, fault>>

cmdGetRead ==
  /\ pc = "get_read"
  /\ \E service \in ServiceVals, username \in UsernameVals, in \in MasterInputs :
       /\ loc' = [loc EXCEPT !.service = service, !.username = username,
                              !.masterPw = getMasterPassword(in.opt, in.typed)]
       /\ Goto("get_verify", AskEvents(in))
  /\ UNCHANGED <<dbFile, integrity, fs, dbOpen, store, tx, pre, fault>>

cmdGetVerify ==
  /\ pc = "get_verify"
  /\ Authenticate(loc.masterPw, <<"authFailed">>, "get_select")
  /\ UNCHANGED <<loc, fs, store, tx, pre, fault>>

\* SELECT password ... WHERE service=? AND username=?; decrypt; print
cmdGetSelect ==
  /\ pc = "get_select"
  /\ IF ~HasKey(store, loc.service, loc.username)
     THEN exitWith(ExitCode.GENERAL_ERROR, <<"entryNotFound">>, "main_catch",
                   <<"SELECT">>)
     ELSE LET row == CHOOSE r \in store.credentials :
                       r.service = loc.service /\ r.username = loc.username
              plain == decrypt(row.password,
                               deriveKey(loc.masterPw, getMasterSalt(store)))
          IN IF plain.ok
             THEN exitWith(ExitCode.OK, <<loc.service, loc.username, plain.plain>>,
                           "main_catch", <<"SELECT", "decrypt">>)
             ELSE Throw("ERR_CRYPTO", "main_catch", <<"SELECT", "decrypt">>)
  /\ UNCHANGED <<loc, dbFile, integrity, fs, dbOpen, store, tx, pre, fault>>

cmdGet == cmdGetArgs \/ cmdGetRead \/ cmdGetVerify \/ cmdGetSelect

\* ------------------------------------------------------------------------
\* del
\* ------------------------------------------------------------------------
cmdDelArgs ==
  /\ pc = "del_args"
  /\ \E lengthOk \in BOOLEAN :
       IF lengthOk THEN Goto("require_ready", <<>>)
       ELSE exitWith(ExitCode.USAGE_ERROR, <<"usage.del">>, "main_catch", <<>>)
  /\ UNCHANGED <<loc, dbFile, integrity, fs, dbOpen, store, tx, pre, fault>>

cmdDelRead ==
  /\ pc = "del_read"
  /\ \E service \in ServiceVals, username \in UsernameVals, in \in MasterInputs :
       /\ loc' = [loc EXCEPT !.service = service, !.username = username,
                              !.masterPw = getMasterPassword(in.opt, in.typed)]
       /\ Goto("del_verify", AskEvents(in))
  /\ UNCHANGED <<dbFile, integrity, fs, dbOpen, store, tx, pre, fault>>

cmdDelVerify ==
  /\ pc = "del_verify"
  /\ Authenticate(loc.masterPw, <<"authFailed">>, "del_begin")
  /\ UNCHANGED <<loc, fs, store, tx, pre, fault>>

cmdDelBegin ==
  /\ pc = "del_begin"
  /\ \/ /\ tx' = [active |-> TRUE, snap |-> store]
        /\ Goto("del_delete", <<"BEGIN">>)
        /\ UNCHANGED <<store, fault>>
     \/ StorageFault("del_catch", <<"BEGIN">>)
  /\ UNCHANGED <<loc, dbFile, integrity, fs, dbOpen, pre>>

\* DELETE ... WHERE service=? AND username=?; res.changes === 0 goes to the
\* ROLLBACK of the not-found branch
cmdDelDelete ==
  /\ pc = "del_delete"
  /\ \/ /\ store' = DeleteCredential(store, loc.service, loc.username)
        /\ Goto(IF DeleteChanges(store, loc.service, loc.username) = 0
                THEN "del_notfound" ELSE "del_commit", <<"DELETE">>)
        /\ UNCHANGED <<tx, fault>>
     \/ StorageFault("del_catch", <<"DELETE">>)
  /\ UNCHANGED <<loc, dbFile, integrity, fs, dbOpen, pre>>

\* db.exec('ROLLBACK'); exitWith(GENERAL_ERROR, entryNotFound): both inside the
\* try block, so what exitWith throws is caught by the catch of cmdDel
cmdDelNotFound ==
  /\ pc = "del_notfound"
  /\ \/ /\ store' = Rollback(store, tx.snap)
        /\ tx' = NoTx
        /\ exitWith(ExitCode.GENERAL_ERROR, <<"entryNotFound">>, "del_catch",
                    <<"ROLLBACK">>)
        /\ UNCHANGED fault
     \/ StorageFault("del_catch", <<"ROLLBACK">>)
  /\ UNCHANGED <<loc, dbFile, integrity, fs, dbOpen, pre>>

cmdDelCommit ==
  /\ pc = "del_commit"
  /\ \/ /\ tx' = NoTx
        /\ Goto("del_ok", <<"COMMIT">>)
        /\ UNCHANGED <<store, fault>>
     \/ StorageFault("del_catch", <<"COMMIT">>)
  /\ UNCHANGED <<loc, dbFile, integrity, fs, dbOpen, pre>>

\* catch (e): roll back, then exitWith(IO_DB_ERROR, `Error accessing DB: ...`)
\* with e.message, or String(e) when e has no message
cmdDelCatch ==
  /\ pc = "del_catch"
  /\ TryRollback
  /\ exitWith(ExitCode.IO_DB_ERROR,
              <<"Error accessing DB:",
                IF err.kind = "exit" THEN "[object Object]" ELSE err.kind>>,
              "main_catch", <<"ROLLBACK">>)
  /\ loc' = Unwound
  /\ UNCHANGED <<dbFile, integrity, fs, dbOpen, pre, fault>>

cmdDelOk ==
  /\ pc = "del_ok"
  /\ exitWith(ExitCode.OK, <<"entryDeleted">>, "main_catch", <<>>)
  /\ UNCHANGED <<loc, dbFile, integrity, fs, dbOpen, store, tx, pre, fault>>

cmdDel ==
  \/ cmdDelArgs \/ cmdDelRead \/ cmdDelVerify \/ cmdDelBegin \/ cmdDelDelete
  \/ cmdDelNotFound \/ cmdDelCommit \/ cmdDelCatch \/ cmdDelOk

\* ------------------------------------------------------------------------
\* list
\* ------------------------------------------------------------------------
\* the characters of the model in code point order (BINARY collation)
Alphabet == <<TAB, LF, CR, COMMA, "a", "b", "p", "q", "u", BOM>>
CodeOf(c) == CHOOSE i \in 1..Len(Alphabet) : Alphabet[i] = c

RECURSIVE StrLeq(_, _)
StrLeq(s, t) ==
  IF s = <<>> THEN TRUE
  ELSE IF t = <<>> THEN FALSE
  ELSE IF Head(s) # Head(t) THEN CodeOf(Head(s)) < CodeOf(Head(t))
  ELSE StrLeq(Tail(s), Tail(t))

\* faulty variant: the username order is taken from the password
ColumnOfPassword(r, orderBy) ==
  IF orderBy = "username" THEN r.password.ct.p ELSE r.service

Column(r, orderBy) == IF orderBy = "username" THEN r.username ELSE r.service

\* SELECT service, username FROM credentials ORDER BY <orderBy> <order>: every
\* row once, rows with equal sort values in any order
OrderedRows(table, orderBy, order) ==
  {rows \in Rows(table) :
     \A i, j \in 1..Len(rows) :
       i < j => IF order = "DESC"
                THEN StrLeq(Column(rows[j], orderBy), Column(rows[i], orderBy))
                ELSE StrLeq(Column(rows[i], orderBy), Column(rows[j], orderBy))}

cmdListArgs ==
  /\ pc = "list_args"
  /\ \E shape \in {"plain", "sorted", "bad"} :
       IF shape = "bad"
       THEN /\ exitWith(ExitCode.USAGE_ERROR, <<"usage.list">>, "main_catch", <<>>)
            /\ UNCHANGED loc
       ELSE /\ Goto("require_ready", <<>>)
            /\ IF shape = "sorted"
               THEN \E flag \in {"--asc", "--desc", "--up"},
                       column \in {"service", "username", "password"} :
                      loc' = [loc EXCEPT !.shape = shape, !.flag = flag,
                                         !.column = column]
               ELSE loc' = [loc EXCEPT !.shape = shape]
  /\ UNCHANGED <<dbFile, integrity, fs, dbOpen, store, tx, pre, fault>>

\* faulty variant: the flag and the column are used as they come
cmdListSortNoAllowList ==
  /\ pc = "list_sort"
  /\ IF loc.shape = "sorted"
     THEN loc' = [loc EXCEPT !.order = IF loc.flag = "--desc" THEN "DESC" ELSE "ASC",
                             !.orderBy = loc.column]
     ELSE UNCHANGED loc
  /\ Goto("list_query", <<>>)
  /\ UNCHANGED <<dbFile, integrity, fs, dbOpen, store, tx, pre, fault>>

\* only --asc / --desc with service / username
cmdListSort ==
  /\ pc = "list_sort"
  /\ IF loc.shape = "sorted"
     THEN IF \/ loc.flag \notin {"--asc", "--desc"}
             \/ loc.column \notin {"service", "username"}
          THEN /\ exitWith(ExitCode.USAGE_ERROR, <<"usage.list">>, "main_catch", <<>>)
               /\ UNCHANGED loc
          ELSE /\ loc' = [loc EXCEPT
                             !.order = IF loc.flag = "--desc" THEN "DESC" ELSE "ASC",
                             !.orderBy = loc.column]
               /\ Goto("list_query", <<>>)
     ELSE /\ Goto("list_query", <<>>)
          /\ UNCHANGED loc
  /\ UNCHANGED <<dbFile, integrity, fs, dbOpen, store, tx, pre, fault>>

\* openDb(); the query; one line per row, or NoData
cmdListQuery ==
  /\ pc = "list_query"
  /\ openDb
  /\ \E rows \in OrderedRows(store.credentials, loc.orderBy, loc.order) :
       IF Len(rows) = 0
       THEN exitWith(ExitCode.OK, <<"NoData">>, "main_catch", <<"openDb", "SELECT">>)
       ELSE /\ out' = out \o [i \in 1..Len(rows) |->
                                [fd |-> "stdout",
                                 text |-> <<rows[i].service, rows[i].username>>]]
            /\ err' = ExitErr(ExitCode.OK)
            /\ pc' = "main_catch"
            /\ trace' = trace \o <<"openDb", "SELECT", "exitWith">>
            /\ UNCHANGED exitCode
  /\ UNCHANGED <<loc, fs, store, tx, pre, fault>>

cmdList == cmdListArgs \/ cmdListSort \/ cmdListQuery

\* ------------------------------------------------------------------------
\* status
\* ------------------------------------------------------------------------
cmdStatusArgs ==
  /\ pc = "status_args"
  /\ \E lengthOk \in BOOLEAN :
       IF lengthOk THEN Goto("status_exists", <<>>)
       ELSE exitWith(ExitCode.USAGE_ERROR, <<"usage.status">>, "main_catch", <<>>)
  /\ UNCHANGED <<loc, dbFile, integrity, fs, dbOpen, store, tx, pre, fault>>

\* faulty variant: status opens the database without looking for the file
cmdStatusExistsNoCheck ==
  /\ pc = "status_exists"
  /\ Goto("status_query", <<"existsSync">>)
  /\ UNCHANGED <<loc, dbFile, integrity, fs, dbOpen, store, tx, pre, fault>>

\* ensureDbExists()
cmdStatusExists ==
  /\ pc = "status_exists"
  /\ IF dbFile THEN Goto("status_query", <<"existsSync">>)
     ELSE exitWith(ExitCode.IO_DB_ERROR, <<"dbNotInitialized">>, "main_catch",
                   <<"existsSync">>)
  /\ UNCHANGED <<loc, dbFile, integrity, fs, dbOpen, store, tx, pre, fault>>

\* try { openDb(); SELECT COUNT(*) FROM credentials; two lines } catch:
\* the query throws without the table, and may throw on a damaged file
cmdStatusQuery ==
  /\ pc = "status_query"
  /\ openDb
  /\ \E readable \in {TRUE, integrity} :
       IF store.hasCredentials /\ readable
       THEN /\ out' = out \o
                   <<[fd |-> "stdout", text |-> <<"initializedYes">>],
                     [fd |-> "stdout",
                      text |-> <<"Entries:", Cardinality(store.credentials)>>]>>
            /\ err' = ExitErr(ExitCode.OK)
            /\ pc' = "main_catch"
            /\ trace' = trace \o <<"openDb", "SELECT COUNT", "exitWith">>
            /\ UNCHANGED exitCode
       ELSE exitWith(ExitCode.IO_DB_ERROR, <<"Error accessing DB:", "SQLITE_ERROR">>,
                     "main_catch", <<"openDb", "SELECT COUNT">>)
  /\ UNCHANGED <<loc, fs, store, tx, pre, fault>>

cmdStatus == cmdStatusArgs \/ cmdStatusExists \/ cmdStatusQuery

\* ------------------------------------------------------------------------
\* export
\* ------------------------------------------------------------------------
Exists(files, path) == files[path] # Absent

\* what export may find on disk: the target missing, a file or a directory,
\* and the first k numbered names taken
FsEnvs ==
  {[path \in Paths |->
      IF path = Target THEN t
      ELSE IF \E i \in 1..k : path = Candidate(i) THEN OldContent
      ELSE Absent] :
     t \in {Absent, OldContent, Directory}, k \in 0..MaxCandidates}

\* faulty variant: the last numbered name, taken or not
suggestLastPath(files) == MaxCandidates

\* the first of `base (i).ext` that does not exist, 0 when all are taken
suggestNonConflictingPath(files) ==
  IF \E i \in 1..MaxCandidates : ~Exists(files, Candidate(i))
  THEN CHOOSE i \in 1..MaxCandidates :
         /\ ~Exists(files, Candidate(i))
         /\ \A j \in 1..(i - 1) : Exists(files, Candidate(j))
  ELSE 0

cmdExportArgs ==
  /\ pc = "export_args"
  /\ \E lengthOk \in BOOLEAN :
       IF lengthOk THEN Goto("require_ready", <<>>)
       ELSE exitWith(ExitCode.USAGE_ERROR, <<"usage.export">>, "main_catch", <<>>)
  /\ UNCHANGED <<loc, dbFile, integrity, fs, dbOpen, store, tx, pre, fault>>

\* validateExportTargetPath(requestedPath), on the disk as export finds it
cmdExportPath ==
  /\ pc = "export_path"
  /\ \E files \in FsEnvs, csvExt \in BOOLEAN, dirExists \in BOOLEAN :
       /\ ~dirExists => files = NoFiles
       /\ fs' = files
       /\ pre' = [pre EXCEPT !.fs = files]
       /\ IF ~csvExt
          THEN exitWith(ExitCode.USAGE_ERROR, <<"csvExtensionRequired">>,
                        "main_catch", <<>>)
          ELSE IF files[Target] = Directory
          THEN exitWith(ExitCode.USAGE_ERROR, <<"exportTargetDir">>, "main_catch",
                        <<"existsSync">>)
          ELSE IF ~dirExists
          THEN exitWith(ExitCode.IO_DB_ERROR, <<"exportDirNotExist">>, "main_catch",
                        <<"existsSync">>)
          ELSE Goto("export_conflict", <<"existsSync">>)
  /\ UNCHANGED <<loc, dbFile, integrity, dbOpen, store, tx, fault>>

\* the target exists: overwrite, rename or cancel
cmdExportConflict ==
  /\ pc = "export_conflict"
  /\ IF Exists(fs, Target)
     THEN \E choice \in {"o", "r", "c"} :
            CASE choice = "c" ->
                   /\ exitWith(ExitCode.OK, <<"exportCanceled">>, "main_catch",
                               <<"existsSync", "askChoice">>)
                   /\ UNCHANGED loc
              [] choice = "r" /\ suggestNonConflictingPath(fs) = 0 ->
                   /\ exitWith(ExitCode.IO_DB_ERROR, <<"csvCannotGenerateNewFileName">>,
                               "main_catch", <<"existsSync", "askChoice">>)
                   /\ UNCHANGED loc
              [] choice = "r" /\ suggestNonConflictingPath(fs) # 0 ->
                   /\ loc' = [loc EXCEPT
                                !.csvPath = Candidate(suggestNonConflictingPath(fs))]
                   /\ out' = Append(out, [fd |-> "stdout",
                                          text |-> <<"exportRenamedTo",
                                                     Candidate(suggestNonConflictingPath(fs))>>])
                   /\ pc' = "export_read"
                   /\ trace' = trace \o <<"existsSync", "askChoice">>
                   /\ UNCHANGED <<err, exitCode>>
              [] OTHER ->
                   /\ loc' = [loc EXCEPT !.csvPath = Target]
                   /\ Goto("export_read", <<"existsSync", "askChoice">>)
     ELSE /\ loc' = [loc EXCEPT !.csvPath = Target]
          /\ Goto("export_read", <<"existsSync">>)
  /\ UNCHANGED <<dbFile, integrity, fs, dbOpen, store, tx, pre, fault>>

cmdExportRead ==
  /\ pc = "export_read"
  /\ \E in \in MasterInputs :
       /\ loc' = [loc EXCEPT !.masterPw = getMasterPassword(in.opt, in.typed)]
       /\ Goto("export_verify", AskEvents(in))
  /\ UNCHANGED <<dbFile, integrity, fs, dbOpen, store, tx, pre, fault>>

cmdExportVerify ==
  /\ pc = "export_verify"
  /\ Authenticate(loc.masterPw, <<"authFailed">>, "export_build")
  /\ UNCHANGED <<loc, fs, store, tx, pre, fault>>

\* read every row, decrypt it, and build the CSV text
cmdExportBuild ==
  /\ pc = "export_build"
  /\ LET key == deriveKey(loc.masterPw, getMasterSalt(store)) IN
       \E rows \in Rows(store.credentials) :
         IF \E i \in 1..Len(rows) : ~decrypt(rows[i].password, key).ok
         THEN /\ Throw("ERR_CRYPTO", "main_catch", <<"SELECT", "decrypt">>)
              /\ UNCHANGED loc
         ELSE LET built ==
                    buildCsv([i \in 1..Len(rows) |->
                               [service |-> rows[i].service,
                                username |-> rows[i].username,
                                password |-> decrypt(rows[i].password, key).plain]])
              IN IF built.ok
                 THEN /\ loc' = [loc EXCEPT !.csv = built.csv]
                      /\ Goto("export_open", <<"SELECT", "decrypt", "buildCsv">>)
                 ELSE /\ exitWith(built.code, built.msg, "main_catch",
                                  <<"SELECT", "decrypt", "buildCsv">>)
                      /\ UNCHANGED loc
  /\ UNCHANGED <<dbFile, integrity, fs, dbOpen, store, tx, pre, fault>>

\* fs.writeFileSync(tmpPath, csv), first half: the file is created or
\* truncated and only a part of the text is on disk; or the call throws
\* faulty variant: the text is written to the path of the export itself
cmdExportOpenInPlace ==
  /\ pc = "export_open"
  /\ \/ \E n \in {0, Len(loc.csv) \div 2} :
          /\ fs' = [fs EXCEPT ![loc.csvPath] = SubSeq(loc.csv, 1, n)]
          /\ Goto("export_write", <<"writeFileSync">>)
     \/ /\ Throw("EACCES", "main_catch", <<"writeFileSync">>)
        /\ UNCHANGED fs
  /\ UNCHANGED <<loc, dbFile, integrity, dbOpen, store, tx, pre, fault>>

cmdExportOpen ==
  /\ pc = "export_open"
  /\ \/ \E n \in {0, Len(loc.csv) \div 2} :
          /\ fs' = [fs EXCEPT ![TmpOf(loc.csvPath)] = SubSeq(loc.csv, 1, n)]
          /\ Goto("export_write", <<"writeFileSync">>)
     \/ /\ Throw("EACCES", "main_catch", <<"writeFileSync">>)
        /\ UNCHANGED fs
  /\ UNCHANGED <<loc, dbFile, integrity, dbOpen, store, tx, pre, fault>>

\* fs.writeFileSync(tmpPath, csv), second half: the whole text is on disk
cmdExportWrite ==
  /\ pc = "export_write"
  /\ fs' = [fs EXCEPT ![TmpOf(loc.csvPath)] = loc.csv]
  /\ Goto("export_rename", <<>>)
  /\ UNCHANGED <<loc, dbFile, integrity, dbOpen, store, tx, pre, fault>>

\* fs.renameSync(tmpPath, csvPath)
cmdExportRename ==
  /\ pc = "export_rename"
  /\ fs' = [fs EXCEPT ![loc.csvPath] = fs[TmpOf(loc.csvPath)],
                      ![TmpOf(loc.csvPath)] = Absent]
  /\ Goto("export_ok", <<"renameSync">>)
  /\ UNCHANGED <<loc, dbFile, integrity, dbOpen, store, tx, pre, fault>>

cmdExportOk ==
  /\ pc = "export_ok"
  /\ exitWith(ExitCode.OK, <<"Success: Exported to", loc.csvPath>>, "main_catch", <<>>)
  /\ UNCHANGED <<loc, dbFile, integrity, fs, dbOpen, store, tx, pre, fault>>

cmdExport ==
  \/ cmdExportArgs \/ cmdExportPath \/ cmdExportConflict \/ cmdExportRead
  \/ cmdExportVerify \/ cmdExportBuild \/ cmdExportOpen \/ cmdExportWrite
  \/ cmdExportRename \/ cmdExportOk

\* ------------------------------------------------------------------------
\* import
\* ------------------------------------------------------------------------
\* the files a caller may hand to import
ValidLines ==
  {CsvLine([service |-> <<"a">>, username |-> <<"u">>, password |-> <<"p">>]),
   CsvLine([service |-> <<"a">>, username |-> <<"u">>, password |-> <<"q">>]),
   CsvLine([service |-> <<"b">>, username |-> <<"u">>, password |-> <<"q">>])}
BadLines ==
  {<<"a", COMMA, "u">>, <<"a", COMMA, "u", COMMA, "p", COMMA, "q">>,
   <<"a", COMMA, TAB, COMMA, "p">>}
ImportTexts ==
  LET rowSeqs == UNION {[1..n -> ValidLines \cup BadLines] : n \in 0..MaxRows}
  IN {Join(<<CsvHeader>> \o rows \o tail, LF) :
        rows \in rowSeqs, tail \in {<<>>, <<<<>>>>, <<<<>>, <<>>>>}}
       \cup {<<>>, <<LF>> \o CsvHeader, <<BOM>> \o CsvHeader,
             CsvHeader \o <<CR, LF>>, Tail(CsvHeader)}

ImportFiles ==
  {[csvExt |-> TRUE, exists |-> TRUE, isDir |-> FALSE, text |-> t] : t \in ImportTexts}
    \cup {[csvExt |-> FALSE, exists |-> TRUE, isDir |-> FALSE, text |-> CsvHeader],
          [csvExt |-> TRUE, exists |-> FALSE, isDir |-> FALSE, text |-> <<>>],
          [csvExt |-> TRUE, exists |-> TRUE, isDir |-> TRUE, text |-> <<>>]}

\* the texts the interchange format rules out, stated on the text itself: a
\* byte-order mark, a CR, a first line that is not the header, and a data line
\* that is blank (unless it is the single last line), has not exactly three
\* fields, or has a control character in a field
MalformedCsv(text) ==
  LET lines == Split(text, LF) IN
    \/ text # <<>> /\ text[1] = BOM
    \/ \E i \in 1..Len(text) : text[i] = CR
    \/ lines[1] # CsvHeader
    \/ \E i \in 2..Len(lines) :
         \/ lines[i] = <<>> /\ i # Len(lines)
         \/ /\ lines[i] # <<>>
            /\ \/ Cardinality({j \in 1..Len(lines[i]) : lines[i][j] = COMMA}) # 2
               \/ \E j \in 1..Len(lines[i]) : lines[i][j] = TAB

cmdImportArgs ==
  /\ pc = "import_args"
  /\ \E lengthOk \in BOOLEAN :
       IF lengthOk THEN Goto("require_ready", <<>>)
       ELSE exitWith(ExitCode.USAGE_ERROR, <<"usage.import">>, "main_catch", <<>>)
  /\ UNCHANGED <<loc, dbFile, integrity, fs, dbOpen, store, tx, pre, fault>>

\* filePath = args[1]; getMasterPassword(args, 2).  fileBad: the path names
\* a *.csv file that is there and whose text the format rules out
cmdImportRead ==
  /\ pc = "import_read"
  /\ \E in \in MasterInputs, fileBad \in BOOLEAN :
       /\ loc' = [loc EXCEPT !.masterPw = getMasterPassword(in.opt, in.typed),
                              !.fileBad = fileBad]
       /\ Goto("import_verify", AskEvents(in))
  /\ UNCHANGED <<dbFile, integrity, fs, dbOpen, store, tx, pre, fault>>

cmdImportVerify ==
  /\ pc = "import_verify"
  /\ Authenticate(loc.masterPw, <<"authFailed">>, "import_parse")
  /\ UNCHANGED <<loc, fs, store, tx, pre, fault>>

\* const records = parseCsvFileStrict(filePath)
cmdImportParse ==
  /\ pc = "import_parse"
  /\ \E file \in ImportFiles \cup
                  {[csvExt |-> TRUE, exists |-> TRUE, isDir |-> FALSE,
                    text |-> e.text] : e \in {pre.exported} \ {NoExport}} :
       LET parsed == parseCsvFileStrict(file)
           fromExport == pre.exported.written /\ file.csvExt /\ file.exists
                           /\ ~file.isDir /\ file.text = pre.exported.text
       IN
         /\ loc.fileBad = (/\ file.csvExt /\ file.exists /\ ~file.isDir
                           /\ MalformedCsv(file.text))
         /\ IF parsed.ok
            THEN /\ loc' = [loc EXCEPT !.records = parsed.records,
                                       !.malformed = MalformedCsv(file.text),
                                       !.fromExport = fromExport]
                 /\ Goto("import_confirm", <<"parseCsvFileStrict">>)
            ELSE /\ exitWith(parsed.code, parsed.msg, "main_catch",
                             <<"parseCsvFileStrict">>)
                 /\ loc' = [loc EXCEPT !.malformed = MalformedCsv(file.text),
                                       !.fromExport = fromExport]
  /\ pre' = [pre EXCEPT !.exported = NoExport]
  /\ UNCHANGED <<dbFile, integrity, fs, dbOpen, store, tx, fault>>

\* faulty variant: the import goes on without the question
cmdImportConfirmNoQuestion ==
  /\ pc = "import_confirm"
  /\ Goto("import_begin", <<"SELECT COUNT">>)
  /\ UNCHANGED <<loc, dbFile, integrity, fs, dbOpen, store, tx, pre, fault>>

\* SELECT COUNT(*) FROM credentials; with rows there, ask y/n
cmdImportConfirm ==
  /\ pc = "import_confirm"
  /\ IF Cardinality(store.credentials) > 0
     THEN \E choice \in {"y", "n"} :
            IF choice = "n"
            THEN exitWith(ExitCode.OK, <<"importCanceled">>, "main_catch",
                          <<"SELECT COUNT", "askChoice">>)
            ELSE Goto("import_begin", <<"SELECT COUNT", "askChoice">>)
     ELSE Goto("import_begin", <<"SELECT COUNT">>)
  /\ UNCHANGED <<loc, dbFile, integrity, fs, dbOpen, store, tx, pre, fault>>

\* getMasterSalt, deriveKey, BEGIN
cmdImportBegin ==
  /\ pc = "import_begin"
  /\ \/ /\ tx' = [active |-> TRUE, snap |-> store]
        /\ Goto("import_delete", <<"BEGIN">>)
        /\ UNCHANGED <<store, fault>>
     \/ StorageFault("import_catch", <<"BEGIN">>)
  /\ UNCHANGED <<loc, dbFile, integrity, fs, dbOpen, pre>>

\* DELETE FROM credentials
cmdImportDelete ==
  /\ pc = "import_delete"
  /\ \/ /\ store' = DeleteAllCredentials(store)
        /\ Goto(IF Len(loc.records) = 0 THEN "import_commit" ELSE "import_insert",
                <<"DELETE">>)
        /\ loc' = [loc EXCEPT !.i = 1]
        /\ UNCHANGED <<tx, fault>>
     \/ /\ StorageFault("import_catch", <<"DELETE">>)
        /\ UNCHANGED loc
  /\ UNCHANGED <<dbFile, integrity, fs, dbOpen, pre>>

\* insert.run(r.service, r.username, encrypt(r.password, key)) for record i
cmdImportInsert ==
  /\ pc = "import_insert"
  /\ LET r == loc.records[loc.i]
         key == deriveKey(loc.masterPw, getMasterSalt(store))
     IN \/ \E iv \in Nonces :
             IF InsertCredentialOk(store, r.service, r.username)
             THEN /\ store' = InsertCredential(store, r.service, r.username,
                                                encrypt(r.password, key, iv))
                  /\ Goto(IF loc.i = Len(loc.records)
                          THEN "import_commit" ELSE "import_insert", <<"INSERT">>)
                  /\ loc' = [loc EXCEPT !.i = @ + 1]
                  /\ UNCHANGED <<tx, fault>>
             ELSE /\ Throw("UNIQUE constraint failed", "import_catch", <<"INSERT">>)
                  /\ UNCHANGED <<loc, store, tx, fault>>
        \/ /\ StorageFault("import_catch", <<"INSERT">>)
           /\ UNCHANGED loc
  /\ UNCHANGED <<dbFile, integrity, fs, dbOpen, pre>>

cmdImportCommit ==
  /\ pc = "import_commit"
  /\ \/ /\ tx' = NoTx
        /\ Goto("import_ok", <<"COMMIT">>)
        /\ UNCHANGED <<store, fault>>
     \/ StorageFault("import_catch", <<"COMMIT">>)
  /\ UNCHANGED <<loc, dbFile, integrity, fs, dbOpen, pre>>

\* faulty variant: the catch block commits what the transaction has done
cmdImportCatchCommits ==
  /\ pc = "import_catch"
  /\ tx' = NoTx /\ store' = store
  /\ exitWith(ExitCode.IO_DB_ERROR, <<"importFailed">>, "main_catch", <<"COMMIT">>)
  /\ loc' = Unwound
  /\ UNCHANGED <<dbFile, integrity, fs, dbOpen, pre, fault>>

\* catch { try { db.exec('ROLLBACK') } catch {}; exitWith(IO_DB_ERROR, importFailed) }
cmdImportCatch ==
  /\ pc = "import_catch"
  /\ TryRollback
  /\ exitWith(ExitCode.IO_DB_ERROR, <<"importFailed">>, "main_catch", <<"ROLLBACK">>)
  /\ loc' = Unwound
  /\ UNCHANGED <<dbFile, integrity, fs, dbOpen, pre, fault>>

cmdImportOk ==
  /\ pc = "import_ok"
  /\ exitWith(ExitCode.OK, <<"Success: imported", Len(loc.records), "records.">>,
              "main_catch", <<>>)
  /\ UNCHANGED <<loc, dbFile, integrity, fs, dbOpen, store, tx, pre, fault>>

cmdImport ==
  \/ cmdImportArgs \/ cmdImportRead \/ cmdImportVerify \/ cmdImportParse
  \/ cmdImportConfirm \/ cmdImportBegin \/ cmdImportDelete \/ cmdImportInsert
  \/ cmdImportCommit \/ cmdImportCatch \/ cmdImportOk

\* ------------------------------------------------------------------------
\* change-master
\* ------------------------------------------------------------------------
\* only --old-master <v> and --new-master <v> are allowed
cmdChangeMasterArgs ==
  /\ pc = "cm_args"
  /\ \E optionsOk \in BOOLEAN :
       IF optionsOk THEN Goto("require_ready", <<>>)
       ELSE exitWith(ExitCode.USAGE_ERROR, <<"usage.changeMaster">>, "main_catch", <<>>)
  /\ UNCHANGED <<loc, dbFile, integrity, fs, dbOpen, store, tx, pre, fault>>

\* --new-master <value>, or nothing (or an empty value) and then the new
\* password typed twice
NewMasterInputs ==
  {[opt |-> o, typed |-> "", again |-> ""] : o \in MasterPws}
    \cup {[opt |-> o, typed |-> t, again |-> c] :
            o \in {NoArg, ""}, t \in AllPws, c \in AllPws}

\* oldPw = getOption(args, '--old-master') ?? askPassword(...);
\* newPw = getOption(args, '--new-master') ?? askNewMasterWithConfirm()
cmdChangeMasterRead ==
  /\ pc = "cm_read"
  /\ \E old \in MasterInputs, new \in NewMasterInputs :
       LET asked == AskEvents(old) \o
                      (IF getOption(new.opt) = NoArg
                       THEN <<"askPassword", "askPassword">> ELSE <<>>)
       IN IF getOption(new.opt) = NoArg /\ new.typed # new.again
          THEN /\ exitWith(ExitCode.USAGE_ERROR, <<"pwMismatch">>, "main_catch", asked)
               /\ UNCHANGED loc
          ELSE /\ loc' = [loc EXCEPT
                            !.shape = "read",
                            !.masterPw = getMasterPassword(old.opt, old.typed),
                            !.newPw = getMasterPassword(new.opt, new.typed)]
               /\ Goto("cm_same", asked)
  /\ UNCHANGED <<dbFile, integrity, fs, dbOpen, store, tx, pre, fault>>

\* faulty variant: no test for old === new, the rotation goes on
cmdChangeMasterSameGoesOn ==
  /\ pc = "cm_same"
  /\ Goto("cm_verify", <<>>)
  /\ UNCHANGED <<loc, dbFile, integrity, fs, dbOpen, store, tx, pre, fault>>

\* if (oldPw === newPw) exitWith(OK, masterUnchanged)
cmdChangeMasterSame ==
  /\ pc = "cm_same"
  /\ IF loc.masterPw = loc.newPw
     THEN exitWith(ExitCode.OK, <<"masterUnchanged">>, "main_catch", <<>>)
     ELSE Goto("cm_verify", <<>>)
  /\ UNCHANGED <<loc, dbFile, integrity, fs, dbOpen, store, tx, pre, fault>>

cmdChangeMasterVerify ==
  /\ pc = "cm_verify"
  /\ Authenticate(loc.masterPw, <<"invalidOldMaster">>, "cm_decrypt")
  /\ UNCHANGED <<loc, fs, store, tx, pre, fault>>

\* read the master row, decrypt every credential under the old key, and draw
\* the new salt; a decrypt that throws is caught by the catch of the command
cmdChangeMasterDecrypt ==
  /\ pc = "cm_decrypt"
  /\ LET oldKey == deriveKey(loc.masterPw, MasterRow(store).salt) IN
       \E encryptedRows \in Rows(store.credentials), newSalt \in Salts :
         IF \A i \in 1..Len(encryptedRows) : decrypt(encryptedRows[i].password, oldKey).ok
         THEN /\ loc' = [loc EXCEPT
                           !.records =
                             [i \in 1..Len(encryptedRows) |->
                                [service |-> encryptedRows[i].service,
                                 username |-> encryptedRows[i].username,
                                 password |-> decrypt(encryptedRows[i].password,
                                                      oldKey).plain]],
                           !.newSalt = newSalt]
              /\ Goto("cm_begin", <<"SELECT master", "SELECT", "decrypt">>)
         ELSE /\ Throw("ERR_CRYPTO", "cm_catch", <<"SELECT master", "SELECT", "decrypt">>)
              /\ UNCHANGED loc
  /\ UNCHANGED <<dbFile, integrity, fs, dbOpen, store, tx, pre, fault>>

\* faulty variant: the rotation runs without BEGIN, every statement on its own
cmdChangeMasterBeginNoTransaction ==
  /\ pc = "cm_begin"
  /\ \/ /\ Goto("cm_update", <<>>)
        /\ UNCHANGED <<store, tx, fault>>
     \/ StorageFault("cm_catch", <<>>)
  /\ UNCHANGED <<loc, dbFile, integrity, fs, dbOpen, pre>>

cmdChangeMasterBegin ==
  /\ pc = "cm_begin"
  /\ \/ /\ tx' = [active |-> TRUE, snap |-> store]
        /\ Goto("cm_update", <<"BEGIN">>)
        /\ UNCHANGED <<store, fault>>
     \/ StorageFault("cm_catch", <<"BEGIN">>)
  /\ UNCHANGED <<loc, dbFile, integrity, fs, dbOpen, pre>>

\* UPDATE master SET password_hash=?, salt=? WHERE id=1
cmdChangeMasterUpdate ==
  /\ pc = "cm_update"
  /\ \/ /\ store' = UpdateMaster(store,
                       hashDerivedKey(deriveKey(loc.newPw, loc.newSalt)), loc.newSalt)
        /\ Goto("cm_delete", <<"UPDATE master">>)
        /\ UNCHANGED <<tx, fault>>
     \/ StorageFault("cm_catch", <<"UPDATE master">>)
  /\ UNCHANGED <<loc, dbFile, integrity, fs, dbOpen, pre>>

cmdChangeMasterDelete ==
  /\ pc = "cm_delete"
  /\ \/ /\ store' = DeleteAllCredentials(store)
        /\ Goto(IF Len(loc.records) = 0 THEN "cm_commit" ELSE "cm_insert", <<"DELETE">>)
        /\ loc' = [loc EXCEPT !.i = 1]
        /\ UNCHANGED <<tx, fault>>
     \/ /\ StorageFault("cm_catch", <<"DELETE">>)
        /\ UNCHANGED loc
  /\ UNCHANGED <<dbFile, integrity, fs, dbOpen, pre>>

\* faulty variant: the rows are sealed under the key of the old salt
cmdChangeMasterInsertOldSalt ==
  /\ pc = "cm_insert"
  /\ LET r == loc.records[loc.i]
         newKey == deriveKey(loc.newPw, getMasterSalt(tx.snap))
     IN \/ \E iv \in Nonces :
             IF InsertCredentialOk(store, r.service, r.username)
             THEN /\ store' = InsertCredential(store, r.service, r.username,
                                                encrypt(r.password, newKey, iv))
                  /\ Goto(IF loc.i = Len(loc.records) THEN "cm_commit" ELSE "cm_insert",
                          <<"INSERT">>)
                  /\ loc' = [loc EXCEPT !.i = @ + 1]
                  /\ UNCHANGED <<tx, fault>>
             ELSE /\ Throw("UNIQUE constraint failed", "cm_catch", <<"INSERT">>)
                  /\ UNCHANGED <<loc, store, tx, fault>>
        \/ /\ StorageFault("cm_catch", <<"INSERT">>)
           /\ UNCHANGED loc
  /\ UNCHANGED <<dbFile, integrity, fs, dbOpen, pre>>

\* insert.run(r.service, r.username, encrypt(r.password, newKey)) for row i
cmdChangeMasterInsert ==
  /\ pc = "cm_insert"
  /\ LET r == loc.records[loc.i]
         newKey == deriveKey(loc.newPw, loc.newSalt)
     IN \/ \E iv \in Nonces :
             IF InsertCredentialOk(store, r.service, r.username)
             THEN /\ store' = InsertCredential(store, r.service, r.username,
                                                encrypt(r.password, newKey, iv))
                  /\ Goto(IF loc.i = Len(loc.records) THEN "cm_commit" ELSE "cm_insert",
                          <<"INSERT">>)
                  /\ loc' = [loc EXCEPT !.i = @ + 1]
                  /\ UNCHANGED <<tx, fault>>
             ELSE /\ Throw("UNIQUE constraint failed", "cm_catch", <<"INSERT">>)
                  /\ UNCHANGED <<loc, store, tx, fault>>
        \/ /\ StorageFault("cm_catch", <<"INSERT">>)
           /\ UNCHANGED loc
  /\ UNCHANGED <<dbFile, integrity, fs, dbOpen, pre>>

cmdChangeMasterCommit ==
  /\ pc = "cm_commit"
  /\ \/ /\ tx' = NoTx
        /\ Goto("cm_ok", <<"COMMIT">>)
        /\ UNCHANGED <<store, fault>>
     \/ StorageFault("cm_catch", <<"COMMIT">>)
  /\ UNCHANGED <<loc, dbFile, integrity, fs, dbOpen, pre>>

cmdChangeMasterCatch ==
  /\ pc = "cm_catch"
  /\ TryRollback
  /\ exitWith(ExitCode.GENERAL_ERROR, <<"changeMasterFailed">>, "main_catch",
              <<"ROLLBACK">>)
  /\ loc' = Unwound
  /\ UNCHANGED <<dbFile, integrity, fs, dbOpen, pre, fault>>

cmdChangeMasterOk ==
  /\ pc = "cm_ok"
  /\ exitWith(ExitCode.OK, <<"masterChanged">>, "main_catch", <<>>)
  /\ UNCHANGED <<loc, dbFile, integrity, fs, dbOpen, store, tx, pre, fault>>

cmdChangeMaster ==
  \/ cmdChangeMasterArgs \/ cmdChangeMasterRead \/ cmdChangeMasterSame
  \/ cmdChangeMasterVerify \/ cmdChangeMasterDecrypt \/ cmdChangeMasterBegin
  \/ cmdChangeMasterUpdate \/ cmdChangeMasterDelete \/ cmdChangeMasterInsert
  \/ cmdChangeMasterCommit \/ cmdChangeMasterCatch \/ cmdChangeMasterOk

\* ------------------------------------------------------------------------
Next ==
  \/ main \/ mainDefault \/ mainCatch \/ Crash \/ requireReadyState
  \/ cmdInit \/ cmdAdd \/ cmdGet \/ cmdDel \/ cmdList \/ cmdStatus
  \/ cmdExport \/ cmdImport \/ cmdChangeMaster

Spec == Init /\ [][Next]_vars

\* ------------------------------------------------------------------------
\* The same program started on any pwman.db it may find: missing, damaged,
\* with one table only, with the tables but no master row, with more than
\* one master row
\* ------------------------------------------------------------------------
AnyTables ==
  LET key == deriveKey("m1", 1)
      row(id) == [id |-> id, password_hash |-> hashDerivedKey(key), salt |-> 1]
      credential == [service |-> <<"a">>, username |-> <<"u">>,
                     password |-> encrypt(<<"p">>, key, 1)]
  IN {[hasMaster |-> hm, hasCredentials |-> hc, master |-> m, credentials |-> c] :
        hm \in BOOLEAN, hc \in BOOLEAN,
        m \in {{}, {row(1)}, {row(1), row(2)}},
        c \in {{}, {credential}}}

InitAny ==
  /\ pc = "idle"
  /\ loc = NoLoc
  /\ err = NoErr
  /\ dbFile \in BOOLEAN
  /\ integrity \in BOOLEAN
  /\ store \in AnyTables
  /\ ~store.hasMaster => store.master = {}
  /\ ~store.hasCredentials => store.credentials = {}
  /\ ~dbFile => integrity /\ store = EmptyTables
  /\ fs = NoFiles
  /\ dbOpen = FALSE
  /\ tx = NoTx
  /\ out = <<>>
  /\ exitCode = NoExit
  /\ trace = <<>>
  /\ pre = Snapshot
  /\ fault = NoFault

SpecAny == InitAny /\ [][Next]_vars

\* ------------------------------------------------------------------------
\* csvSpec.mts on its own: buildCsv on a list of records, then
\* parseCsvFileStrict on a file that holds what buildCsv returned
\* ------------------------------------------------------------------------
CsvInputs ==
  LET record == [service : {<<"a">>, <<"a", COMMA, "b">>, <<TAB>>},
                 username : {<<"u">>, <<>>},
                 password : {<<"p">>, <<"p", COMMA, "q">>}]
  IN UNION {[1..n -> record] : n \in 0..MaxRows}

InitCsv ==
  /\ pc = "csv_build"
  /\ loc \in {[NoLoc EXCEPT !.cmd = "csv", !.input = records] : records \in CsvInputs}
  /\ err = NoErr
  /\ dbFile = FALSE
  /\ integrity = TRUE
  /\ fs = NoFiles
  /\ dbOpen = FALSE
  /\ store = EmptyTables
  /\ tx = NoTx
  /\ out = <<>>
  /\ exitCode = NoExit
  /\ trace = <<>>
  /\ pre = Snapshot
  /\ fault = NoFault

CsvBuild ==
  /\ pc = "csv_build"
  /\ LET built == buildCsv(loc.input) IN
       IF built.ok
       THEN /\ loc' = [loc EXCEPT !.csv = built.csv]
            /\ pc' = "csv_parse"
            /\ trace' = Append(trace, "buildCsv")
            /\ UNCHANGED <<out, exitCode>>
       ELSE /\ out' = Emit(out, built.code, built.msg)
            /\ exitCode' = Exited(built.code)
            /\ pc' = "csv_done"
            /\ trace' = trace \o <<"buildCsv", "exitWith">>
            /\ UNCHANGED loc
  /\ UNCHANGED <<err, dbFile, integrity, fs, dbOpen, store, tx, pre, fault>>

CsvParse ==
  /\ pc = "csv_parse"
  /\ LET parsed == parseCsvFileStrict([csvExt |-> TRUE, exists |-> TRUE,
                                       isDir |-> FALSE, text |-> loc.csv])
     IN
       IF parsed.ok
       THEN /\ loc' = [loc EXCEPT !.records = parsed.records]
            /\ exitCode' = Exited(ExitCode.OK)
            /\ trace' = Append(trace, "parseCsvFileStrict")
            /\ UNCHANGED out
       ELSE /\ out' = Emit(out, parsed.code, parsed.msg)
            /\ exitCode' = Exited(parsed.code)
            /\ trace' = trace \o <<"parseCsvFileStrict", "exitWith">>
            /\ UNCHANGED loc
  /\ pc' = "csv_done"
  /\ UNCHANGED <<err, dbFile, integrity, fs, dbOpen, store, tx, pre, fault>>

NextCsv == CsvBuild \/ CsvParse

SpecCsv == InitCsv /\ [][NextCsv]_vars

\* ------------------------------------------------------------------------
\* credentialCrypto.mts on its own, at the level of the bytes of the stored
\* text: encrypt, then decrypt of that text or of an altered one, under the
\* same key or another
\* ------------------------------------------------------------------------
IvLen == 12
TagLen == 16
\* setAuthTag takes a GCM tag of 4, 8 or 12 to 16 bytes when no
\* authTagLength is given
ShortTagLens == {4, 8, 12, 13, 14, 15}
B64Group == 3

\* a character that UTF-8 writes as two bytes
EAcute == "e-acute"

\* Buffer.from(plain, 'utf8') / cipher.update(plain, 'utf8')
RECURSIVE Utf8Encode(_)
Utf8Encode(str) ==
  IF str = <<>> THEN <<>>
  ELSE (IF Head(str) = EAcute THEN <<"0xC3", "0xA9">> ELSE <<Head(str)>>)
         \o Utf8Encode(Tail(str))

\* Buffer.prototype.toString('utf8')
RECURSIVE Utf8Decode(_)
Utf8Decode(bytes) ==
  IF bytes = <<>> THEN <<>>
  ELSE IF Len(bytes) >= 2 /\ bytes[1] = "0xC3" /\ bytes[2] = "0xA9"
  THEN <<EAcute>> \o Utf8Decode(SubSeq(bytes, 3, Len(bytes)))
  ELSE IF bytes[1] \in {"0xC3", "0xA9"}
  THEN <<"U+FFFD">> \o Utf8Decode(Tail(bytes))
  ELSE <<bytes[1]>> \o Utf8Decode(Tail(bytes))

\* Buffer.prototype.toString('base64'): one group of four characters for
\* every three bytes, the last group padded
RECURSIVE Base64Encode(_)
Base64Encode(bytes) ==
  IF bytes = <<>> THEN <<>>
  ELSE IF Len(bytes) <= B64Group THEN <<bytes>>
  ELSE <<SubSeq(bytes, 1, B64Group)>>
         \o Base64Encode(SubSeq(bytes, B64Group + 1, Len(bytes)))

\* Buffer.from(text, 'base64')
RECURSIVE Base64Decode(_)
Base64Decode(text) ==
  IF text = <<>> THEN <<>> ELSE Head(text) \o Base64Decode(Tail(text))

\* the bytes of AES-256-GCM: byte j of the ciphertext is byte j of the data
\* under the keystream of (key, iv); the tag is a function of key, iv and
\* ciphertext
GcmCipherBytes(data, key, iv) ==
  [j \in 1..Len(data) |-> <<"ct", <<key, iv>>, j, data[j]>>]
GcmTagBytes(encrypted, key, iv) ==
  [j \in 1..TagLen |-> <<"tag", key, iv, encrypted, j>>]

\* encrypt at the level of bytes; nonce is what randomBytes(12) returned
encryptBase64(plain, key, nonce) ==
  LET iv == [j \in 1..IvLen |-> <<"iv", nonce, j>>]
      encrypted == GcmCipherBytes(Utf8Encode(plain), key, iv)
      tag == GcmTagBytes(encrypted, key, iv)
  IN Base64Encode(iv \o tag \o encrypted)

\* faulty variant: the tag is taken one byte further on
decryptBase64Shifted(cipherText, key, shortTags) ==
  LET data == Base64Decode(cipherText)
      iv == SubSeq(data, 1, IF Len(data) < IvLen THEN Len(data) ELSE IvLen)
      tag == SubSeq(data, IvLen + 2,
                    IF Len(data) < IvLen + TagLen + 1 THEN Len(data)
                    ELSE IvLen + TagLen + 1)
      encrypted == SubSeq(data, IvLen + TagLen + 2, Len(data))
  IN IF /\ Len(tag) = TagLen
        /\ tag = GcmTagBytes(encrypted, key, iv)
     THEN [ok |-> TRUE, plain |-> Utf8Decode([j \in 1..Len(encrypted) |-> encrypted[j][4]])]
     ELSE [ok |-> FALSE, plain |-> <<>>]

\* decrypt at the level of bytes: subarray(0, 12), subarray(12, 28),
\* subarray(28); createDecipheriv throws on an empty iv, setAuthTag on a tag
\* of a length it does not take, final() on a tag that does not verify; a
\* short tag is compared with the first bytes of the tag of the data
\* (shortTags: whether the runtime still takes a short tag)
decryptBase64(cipherText, key, shortTags) ==
  LET data == Base64Decode(cipherText)
      iv == SubSeq(data, 1, IF Len(data) < IvLen THEN Len(data) ELSE IvLen)
      tag == SubSeq(data, IvLen + 1,
                    IF Len(data) < IvLen + TagLen THEN Len(data) ELSE IvLen + TagLen)
      encrypted == SubSeq(data, IvLen + TagLen + 1, Len(data))
  IN IF /\ Len(iv) > 0
        /\ Len(tag) = TagLen \/ (shortTags /\ Len(tag) \in ShortTagLens)
        /\ tag = SubSeq(GcmTagBytes(encrypted, key, iv), 1, Len(tag))
     THEN [ok |-> TRUE, plain |-> Utf8Decode([j \in 1..Len(encrypted) |-> encrypted[j][4]])]
     ELSE [ok |-> FALSE, plain |-> <<>>]

CryptoPlains == {<<>>, <<"p">>, <<"p", COMMA, "q">>, <<EAcute, "q">>}

InitCrypto ==
  /\ pc = "crypto_encrypt"
  /\ loc \in {[NoLoc EXCEPT !.cmd = "crypto", !.password = plain, !.masterPw = m,
                            !.newSalt = salt] :
                plain \in CryptoPlains, m \in MasterPws, salt \in Salts}
  /\ err = NoErr
  /\ dbFile = FALSE
  /\ integrity = TRUE
  /\ fs = NoFiles
  /\ dbOpen = FALSE
  /\ store = EmptyTables
  /\ tx = NoTx
  /\ out = <<>>
  /\ exitCode = NoExit
  /\ trace = <<>>
  /\ pre = Snapshot
  /\ fault = NoFault

\* encrypt(plain, key): the text is kept in loc.csv
CryptoEncrypt ==
  /\ pc = "crypto_encrypt"
  /\ \E nonce \in Nonces :
       loc' = [loc EXCEPT !.csv = encryptBase64(loc.password,
                                                deriveKey(loc.masterPw, loc.newSalt),
                                                nonce),
                          !.i = nonce]
  /\ pc' = "crypto_stored"
  /\ trace' = Append(trace, "encrypt")
  /\ UNCHANGED <<err, dbFile, integrity, fs, dbOpen, store, tx, out, exitCode, pre,
                 fault>>

\* the stored text is altered: one byte is changed, or the text is cut
CryptoAlter ==
  /\ pc = "crypto_stored"
  /\ ~loc.malformed
  /\ LET data == Base64Decode(loc.csv) IN
       \E altered \in {[data EXCEPT ![j] = <<"flip", @>>] : j \in 1..Len(data)}
                        \cup {SubSeq(data, 1, n) : n \in 0..(Len(data) - 1)} :
         loc' = [loc EXCEPT !.csv = Base64Encode(altered), !.malformed = TRUE]
  /\ trace' = Append(trace, "alter")
  /\ UNCHANGED <<pc, err, dbFile, integrity, fs, dbOpen, store, tx, out, exitCode, pre,
                 fault>>

\* decrypt(cipherText, key) under the key of some master password: the
\* plaintext is returned, or the call throws
CryptoDecrypt ==
  /\ pc = "crypto_stored"
  /\ \E m \in MasterPws, shortTags \in BOOLEAN :
       LET opened == decryptBase64(loc.csv, deriveKey(m, loc.newSalt), shortTags) IN
         /\ loc' = [loc EXCEPT !.newPw = m]
         /\ IF opened.ok
            THEN /\ out' = <<[fd |-> "return", text |-> opened.plain]>>
                 /\ err' = NoErr
            ELSE /\ out' = <<>>
                 /\ err' = SqliteErr("ERR_CRYPTO")
  /\ pc' = "crypto_done"
  /\ trace' = Append(trace, "decrypt")
  /\ UNCHANGED <<dbFile, integrity, fs, dbOpen, store, tx, exitCode, pre, fault>>

NextCrypto == CryptoEncrypt \/ CryptoAlter \/ CryptoDecrypt

SpecCrypto == InitCrypto /\ [][NextCrypto]_vars

\* ------------------------------------------------------------------------
\* log_summary.ts: the gunzip stream hands the decompressed bytes to the
\* "data" handler in chunks cut anywhere, then "end" fires.  loc.input is
\* the decompressed bytes, loc.i the bytes handed over so far, loc.buffer
\* the variable buffer, loc.lines the arguments of the calls of lineParser
\* ------------------------------------------------------------------------
LogTexts ==
  UNION {[1..n -> {"a", "b", LF, EAcute}] : n \in 0..MaxText}

InitLog ==
  /\ pc = "log_data"
  /\ loc \in {[NoLoc EXCEPT !.cmd = "log", !.input = Utf8Encode(text)] :
                text \in LogTexts}
  /\ err = NoErr
  /\ dbFile = FALSE
  /\ integrity = TRUE
  /\ fs = NoFiles
  /\ dbOpen = FALSE
  /\ store = EmptyTables
  /\ tx = NoTx
  /\ out = <<>>
  /\ exitCode = NoExit
  /\ trace = <<>>
  /\ pre = Snapshot
  /\ fault = NoFault

\* while ((idx = buffer.indexOf("\n")) !== -1) { lineParser(buffer.slice(0, idx));
\* buffer = buffer.slice(idx + 1) }: the lines taken and what is left
RECURSIVE TakeLines(_, _)
TakeLines(buffer, lines) ==
  IF \A k \in 1..Len(buffer) : buffer[k] # LF
  THEN [buffer |-> buffer, lines |-> lines]
  ELSE LET idx == CHOOSE k \in 1..Len(buffer) :
                    buffer[k] = LF /\ \A j \in 1..(k - 1) : buffer[j] # LF
       IN TakeLines(SubSeq(buffer, idx + 1, Len(buffer)),
                    Append(lines, SubSeq(buffer, 1, idx - 1)))

\* gunzip.on("data", chunk): buffer += chunk.toString(), then the loop
LogData ==
  /\ pc = "log_data"
  /\ loc.i < Len(loc.input)
  /\ \E n \in 1..(Len(loc.input) - loc.i) :
       LET chunk == SubSeq(loc.input, loc.i + 1, loc.i + n)
           taken == TakeLines(loc.buffer \o Utf8Decode(chunk), loc.lines)
       IN loc' = [loc EXCEPT !.i = @ + n, !.buffer = taken.buffer,
                             !.lines = taken.lines]
  /\ trace' = Append(trace, "data")
  /\ UNCHANGED <<pc, err, dbFile, integrity, fs, dbOpen, store, tx, out,
                 exitCode, pre, fault>>

\* gunzip.on("end"): what is left in buffer is split on LF and parsed
LogEnd ==
  /\ pc = "log_data"
  /\ loc.i = Len(loc.input)
  /\ loc' = [loc EXCEPT !.lines = IF Len(loc.buffer) > 0
                                  THEN @ \o Split(loc.buffer, LF) ELSE @]
  /\ pc' = "log_done"
  /\ trace' = Append(trace, "end")
  /\ UNCHANGED <<err, dbFile, integrity, fs, dbOpen, store, tx, out,
                 exitCode, pre, fault>>

NextLog == LogData \/ LogEnd

SpecLog == InitLog /\ [][NextLog]_vars

\* ------------------------------------------------------------------------
\* Vocabulary of the properties
\* ------------------------------------------------------------------------
Occurs(event) == \E i \in 1..Len(trace) : trace[i] = event
LastOut == out[Len(out)].text
PreState == checkDbState(pre.dbFile, pre.integrity, pre.tables)
NowState == checkDbState(dbFile, integrity, Persisted)
KeysOf(table) == {<<r.service, r.username>> : r \in table}
MasterCount == Cardinality(Persisted.master)
FailureCodes ==
  {Exited(ExitCode.GENERAL_ERROR), Exited(ExitCode.USAGE_ERROR),
   Exited(ExitCode.AUTH_ERROR), Exited(ExitCode.IO_DB_ERROR)}
MutatingCommands == {"init", "add", "del", "import", "change-master"}
ReadyCommands == {"add", "get", "del", "list", "export", "import", "change-master"}

\* ------------------------------------------------------------------------
\* C1: when init, add, del, import or change-master ends with a failure exit
\* code (usage, not ready, authentication, duplicate key, not found,
\* validation, or a storage error inside the transaction), the persisted
\* master row and credential rows are the ones the call started with.
C1_FailureLeavesStoreUnchanged ==
  (pc = "done" /\ loc.cmd \in MutatingCommands /\ exitCode \in FailureCodes)
    => /\ Persisted.master = pre.tables.master
       /\ Persisted.credentials = pre.tables.credentials

\* an import that failed at its second insert, after the delete-all and one
\* insert, over a store that held records
C1_Witness ==
  /\ pc = "done" /\ loc.cmd = "import" /\ exitCode = Exited(ExitCode.IO_DB_ERROR)
  /\ fault.at = "import_insert" /\ fault.i = 2
  /\ pre.tables.credentials # {}

\* ------------------------------------------------------------------------
\* C2: a change-master (old # new, old password correct) that fails after its
\* BEGIN - at the UPDATE of the master row, at the delete-all, at any of the
\* inserts or at the COMMIT - leaves a store that authenticates with the old
\* password, not with the new one, and holds the original ciphertexts.
C2_RotationAllOrNothing ==
  (/\ pc = "done" /\ loc.cmd = "change-master"
   /\ fault.at \in {"cm_update", "cm_delete", "cm_insert", "cm_commit"})
    => /\ exitCode \in FailureCodes
       /\ HasMasterRow(Persisted)
       /\ verifyMasterPassword(loc.masterPw, Persisted)
       /\ ~verifyMasterPassword(loc.newPw, Persisted)
       /\ Persisted.credentials = pre.tables.credentials

\* the rotation of two records failed after one of the two inserts
C2_Witness ==
  /\ pc = "done" /\ loc.cmd = "change-master"
  /\ fault.at = "cm_insert" /\ fault.i = 2
  /\ Cardinality(pre.tables.credentials) = 2

\* ------------------------------------------------------------------------
\* C3: after a successful change-master with old # new the store
\* authenticates with new and not with old, holds the same (service,
\* username) keys, and every record opens under the key of the new password
\* and the new salt to the plaintext it had under the old key.
C3_RotationReencrypts ==
  (/\ pc = "done" /\ loc.cmd = "change-master" /\ exitCode = Exited(ExitCode.OK)
   /\ loc.shape = "read" /\ loc.masterPw # loc.newPw)
    => /\ HasMasterRow(Persisted)
       /\ verifyMasterPassword(loc.newPw, Persisted)
       /\ ~verifyMasterPassword(loc.masterPw, Persisted)
       /\ KeysOf(Persisted.credentials) = KeysOf(pre.tables.credentials)
       /\ Cardinality(Persisted.credentials) = Cardinality(pre.tables.credentials)
       /\ \A r \in Persisted.credentials : \A q \in pre.tables.credentials :
            (r.service = q.service /\ r.username = q.username)
              => LET new == decrypt(r.password,
                                    deriveKey(loc.newPw, getMasterSalt(Persisted)))
                     old == decrypt(q.password,
                                    deriveKey(loc.masterPw, getMasterSalt(pre.tables)))
                 IN new.ok /\ old.ok /\ new.plain = old.plain

C3_Witness ==
  /\ pc = "done" /\ loc.cmd = "change-master" /\ exitCode = Exited(ExitCode.OK)
  /\ loc.shape = "read" /\ loc.masterPw # loc.newPw
  /\ Cardinality(Persisted.credentials) = 2

\* ------------------------------------------------------------------------
\* C4: change-master with identical old and new passwords is a no-op: at no
\* point of the call is a transaction begun or the salt, the hash or a
\* ciphertext changed, and the call ends with OK.
C4_SamePasswordIsNoOp ==
  (loc.cmd = "change-master" /\ loc.shape = "read" /\ loc.masterPw = loc.newPw)
    => /\ ~Occurs("BEGIN")
       /\ ~tx.active
       /\ store = pre.tables
       /\ pc = "done" => exitCode = Exited(ExitCode.OK)

C4_Witness ==
  /\ pc = "done" /\ loc.cmd = "change-master" /\ loc.shape = "read"
  /\ loc.masterPw = loc.newPw
  /\ HasMasterRow(store) /\ verifyMasterPassword(loc.masterPw, store)
  /\ store.credentials # {}

\* ------------------------------------------------------------------------
\* C5: an import whose file is malformed (bad header, BOM, CR, a row with a
\* wrong column count or a control character, a blank line that is not the
\* single trailing one) ends with an error without a transaction begun and
\* with every stored record unchanged.
C5_ImportValidatedBeforeMutation ==
  (loc.cmd = "import" /\ loc.malformed)
    => /\ pc \in {"main_catch", "done"}
       /\ ~Occurs("BEGIN")
       /\ ~tx.active
       /\ store = pre.tables
       /\ pc = "done" => exitCode \in FailureCodes

\* a file with a four-column row, offered to a store that holds records
C5_Witness ==
  /\ pc = "done" /\ loc.cmd = "import" /\ loc.malformed
  /\ LastOut = <<"invalidImportFormat">>
  /\ pre.tables.credentials # {}

\* ------------------------------------------------------------------------
\* C6: after a successful import of records R the stored keys are exactly the
\* keys of R, every stored record opens under the current master key to the
\* password R gives for it, nothing else remains, and the count reported is
\* the number of records in R.
C6_ImportReplacesAll ==
  (/\ pc = "done" /\ loc.cmd = "import" /\ exitCode = Exited(ExitCode.OK)
   /\ Len(out) > 0 /\ LastOut[1] = "Success: imported")
    => LET R == loc.records
           key == deriveKey(loc.masterPw, getMasterSalt(Persisted))
       IN /\ KeysOf(Persisted.credentials) =
               {<<R[i].service, R[i].username>> : i \in 1..Len(R)}
          /\ Cardinality(Persisted.credentials) = Len(R)
          /\ \A r \in Persisted.credentials :
               \E i \in 1..Len(R) :
                 /\ R[i].service = r.service /\ R[i].username = r.username
                 /\ decrypt(r.password, key) = [ok |-> TRUE, plain |-> R[i].password]
          /\ verifyMasterPassword(loc.masterPw, Persisted)
          /\ LastOut[2] = Len(R)

\* one record imported over a store that held two
C6_Witness ==
  /\ pc = "done" /\ loc.cmd = "import" /\ exitCode = Exited(ExitCode.OK)
  /\ Len(out) > 0 /\ LastOut[1] = "Success: imported"
  /\ Len(loc.records) = 1
  /\ Cardinality(pre.tables.credentials) = 2

\* ------------------------------------------------------------------------
\* C7: init ends with OK only when it found NO_DB or UNINITIALIZED, and then
\* the store is READY with exactly one master row; on a READY store init
\* fails (with dbAlreadyInitialized once its arguments are accepted) and on a
\* CORRUPTED store it fails, both without changing a row.
C7_InitOnlyFromNoStoreOrUninitialized ==
  (pc = "done" /\ loc.cmd = "init")
    => /\ exitCode = Exited(ExitCode.OK)
            => /\ PreState \in {DbState.NO_DB, DbState.UNINITIALIZED}
               /\ NowState = DbState.READY
               /\ Cardinality(Persisted.master) = 1
       /\ PreState \in {DbState.READY, DbState.CORRUPTED}
            => /\ exitCode # Exited(ExitCode.OK)
               /\ Persisted = pre.tables
       /\ (PreState = DbState.READY /\ loc.shape # "none")
            => /\ exitCode = Exited(ExitCode.GENERAL_ERROR)
               /\ out = <<[fd |-> "stderr", text |-> <<"dbAlreadyInitialized">>]>>
       /\ (PreState = DbState.CORRUPTED /\ loc.shape # "none")
            => exitCode = Exited(ExitCode.IO_DB_ERROR)

\* init succeeded on a file that had both tables and no master row
C7_Witness ==
  /\ pc = "done" /\ loc.cmd = "init" /\ exitCode = Exited(ExitCode.OK)
  /\ pre.dbFile /\ pre.tables.hasMaster /\ pre.tables.hasCredentials

\* ------------------------------------------------------------------------
\* C8: add, get, del, list, export, import and change-master go on only from
\* READY: once the state is probed and is NO_DB or UNINITIALIZED the command
\* ends with "not initialized", on CORRUPTED with "corrupted", exit code 4,
\* and nothing else happened: no password asked or verified, no statement,
\* no row changed, no database file created.
C8_OnlyReadyProceeds ==
  (loc.cmd \in ReadyCommands /\ Occurs("checkDbState") /\ PreState # DbState.READY)
    => /\ pc \in {"main_catch", "done"}
       /\ trace \in {<<"checkDbState", "exitWith">>,
                     <<"checkDbState", "exitWith", "exit">>}
       /\ out = <<[fd |-> "stderr",
                   text |-> IF PreState = DbState.CORRUPTED
                            THEN <<"Database corrupted.">>
                            ELSE <<"Database not initialized.">>]>>
       /\ ~tx.active
       /\ store = pre.tables
       /\ dbFile = pre.dbFile
       /\ pc = "done" => exitCode = Exited(ExitCode.IO_DB_ERROR)

\* export refused on a damaged file
C8_Witness ==
  /\ pc = "done" /\ loc.cmd = "export" /\ PreState = DbState.CORRUPTED
  /\ exitCode = Exited(ExitCode.IO_DB_ERROR)

\* ------------------------------------------------------------------------
\* C9: from NoStore on, no step persists a second master row or removes the
\* one that is there, the first master row is persisted by the COMMIT of
\* init, and a store that is READY stays READY.
C9_OneMasterRecordForever ==
  [][/\ MasterCount' <= 1
     /\ MasterCount = 1 => MasterCount' = 1
     /\ (MasterCount = 0 /\ MasterCount' = 1)
          => (loc.cmd = "init" /\ pc = "init_commit")
     /\ NowState = DbState.READY => NowState' = DbState.READY]_vars

\* the master row is still there after a rotation that failed at its
\* delete-all
C9_Witness ==
  /\ pc = "done" /\ loc.cmd = "change-master" /\ fault.at = "cm_delete"
  /\ MasterCount = 1 /\ NowState = DbState.READY

\* ------------------------------------------------------------------------
\* C10: no two credential rows share (service, username); an add that passed
\* authentication for a key that already has a row fails, with the
\* duplicate-key message and GENERAL_ERROR unless the storage itself failed,
\* and leaves every row as it was.
C10_UniqueKeys ==
  /\ \A r1, r2 \in store.credentials :
       (r1.service = r2.service /\ r1.username = r2.username) => r1 = r2
  /\ (/\ pc = "done" /\ loc.cmd = "add" /\ Occurs("verifyMasterPassword")
      /\ HasMasterRow(pre.tables) /\ verifyMasterPassword(loc.masterPw, pre.tables)
      /\ HasKey(pre.tables, loc.service, loc.username))
       => /\ exitCode \in FailureCodes
          /\ Persisted.credentials = pre.tables.credentials
          /\ fault = NoFault
               => /\ exitCode = Exited(ExitCode.GENERAL_ERROR)
                  /\ out = <<[fd |-> "stderr",
                              text |-> <<"Entry already exists:", loc.service,
                                         loc.username>>]>>

\* a second add of a key, with another password, was refused
C10_Witness ==
  /\ pc = "done" /\ loc.cmd = "add" /\ exitCode = Exited(ExitCode.GENERAL_ERROR)
  /\ Len(out) = 1 /\ LastOut[1] = "Entry already exists:"
  /\ \E r \in store.credentials :
       /\ r.service = loc.service /\ r.username = loc.username
       /\ r.password.ct.p # loc.password

\* ------------------------------------------------------------------------
\* C11: a del that passed authentication for a key that has no row, with no
\* statement failing, ends with the one message entryNotFound and
\* GENERAL_ERROR, and changes no row.  The code does not do this: the
\* exitWith of the not-found branch is inside the try block, its {code} is
\* caught by the catch of cmdDel, and the run ends with IO_DB_ERROR.
C11_DelNotFoundOutcome ==
  (/\ pc = "done" /\ loc.cmd = "del" /\ Occurs("verifyMasterPassword")
   /\ fault = NoFault
   /\ HasMasterRow(pre.tables) /\ verifyMasterPassword(loc.masterPw, pre.tables)
   /\ ~HasKey(pre.tables, loc.service, loc.username))
    => /\ exitCode = Exited(ExitCode.GENERAL_ERROR)
       /\ out = <<[fd |-> "stderr", text |-> <<"entryNotFound">>]>>
       /\ Persisted = pre.tables

\* what the run does instead: two messages, the second the storage error with
\* the thrown object as its text, and exit code 4; no row has changed
C11_Witness ==
  /\ pc = "done" /\ loc.cmd = "del" /\ fault = NoFault
  /\ HasMasterRow(pre.tables) /\ verifyMasterPassword(loc.masterPw, pre.tables)
  /\ ~HasKey(pre.tables, loc.service, loc.username)
  /\ exitCode = Exited(ExitCode.IO_DB_ERROR)
  /\ out = <<[fd |-> "stderr", text |-> <<"entryNotFound">>],
             [fd |-> "stderr", text |-> <<"Error accessing DB:", "[object Object]">>]>>
  /\ Persisted = pre.tables
  /\ Persisted.credentials # {}

\* ------------------------------------------------------------------------
\* C12: after any runs of init, add, del, import and change-master, a get
\* that reaches the password check prints, with the current master password,
\* exactly the password the last successful add or import left for the key,
\* or entryNotFound with GENERAL_ERROR when none is left; with any other
\* password it prints authFailed, ends with AUTH_ERROR and prints no password.
C12_GetReturnsLatest ==
  (pc = "done" /\ loc.cmd = "get" /\ Occurs("verifyMasterPassword"))
    => LET hits == {r \in pre.expected :
                      r.service = loc.service /\ r.username = loc.username}
       IN IF loc.masterPw # pre.master
          THEN /\ exitCode = Exited(ExitCode.AUTH_ERROR)
               /\ out = <<[fd |-> "stderr", text |-> <<"authFailed">>]>>
          ELSE IF hits = {}
          THEN /\ exitCode = Exited(ExitCode.GENERAL_ERROR)
               /\ out = <<[fd |-> "stderr", text |-> <<"entryNotFound">>]>>
          ELSE /\ exitCode = Exited(ExitCode.OK)
               /\ \E r \in hits :
                    /\ hits = {r}
                    /\ out = <<[fd |-> "stdout",
                                text |-> <<r.service, r.username, r.password>>]>>

\* a get that printed the password an import had put in place of the one an
\* add had stored, after the master password was changed
C12_Witness ==
  /\ pc = "done" /\ loc.cmd = "get" /\ exitCode = Exited(ExitCode.OK)
  /\ loc.masterPw = "m2"
  /\ out = <<[fd |-> "stdout", text |-> <<<<"a">>, <<"u">>, <<"q">>>>]>>
  /\ \E r \in Persisted.credentials : r.service = <<"b">>

\* ------------------------------------------------------------------------
\* C13: on a READY store a list with accepted arguments ends with OK without
\* a master password being read, asked or verified; what it prints is a
\* possible output of list on every store with the same (service, username)
\* pairs and other passwords, nonces, salt or master password, and each line
\* it prints is a stored pair and nothing else.
Resealed(table) ==
  LET seals == {encrypt(p, deriveKey(m, salt), iv) :
                  p \in PasswordVals, m \in MasterPws, salt \in Salts, iv \in Nonces}
  IN {t \in SUBSET {[service |-> k[1], username |-> k[2], password |-> e] :
                      k \in KeysOf(table), e \in seals} :
        /\ KeysOf(t) = KeysOf(table)
        /\ Cardinality(t) = Cardinality(table)}

C13_ListNeedsNoPassword ==
  (/\ pc = "done" /\ loc.cmd = "list" /\ PreState = DbState.READY
   /\ exitCode \notin {NoExit, Exited(ExitCode.USAGE_ERROR)})
    => /\ exitCode = Exited(ExitCode.OK)
       /\ loc.masterPw = ""
       /\ ~Occurs("askPassword") /\ ~Occurs("verifyMasterPassword")
       /\ store = pre.tables
       /\ IF store.credentials = {}
          THEN out = <<[fd |-> "stdout", text |-> <<"NoData">>]>>
          ELSE /\ \A i \in 1..Len(out) :
                    /\ out[i].fd = "stdout"
                    /\ Len(out[i].text) = 2
                    /\ <<out[i].text[1], out[i].text[2]>> \in KeysOf(store.credentials)
               /\ \A t \in Resealed(store.credentials) :
                    \E rows \in OrderedRows(t, loc.orderBy, loc.order) :
                      /\ Len(rows) = Len(out)
                      /\ \A i \in 1..Len(rows) :
                           out[i].text = <<rows[i].service, rows[i].username>>

\* two pairs listed by username, where the order is not decided by the column
C13_Witness ==
  /\ pc = "done" /\ loc.cmd = "list" /\ exitCode = Exited(ExitCode.OK)
  /\ loc.orderBy = "username" /\ loc.order = "DESC"
  /\ Len(out) = 2 /\ out[1].text = <<<<"b">>, <<"u">>>>
  /\ \E r1, r2 \in store.credentials : r1.password.ct.p # r2.password.ct.p

\* ------------------------------------------------------------------------
\* C14: a list that ends with OK prints every stored (service, username)
\* pair exactly once, in the order of the requested column and direction,
\* and in ascending service order when no option is given; a list with any
\* other flag or column never opens the database or runs the query, and on
\* a READY store it ends with the usage message and exit code 2.
ListKey(line, orderBy) == IF orderBy = "username" THEN line.text[2] ELSE line.text[1]

C15_CsvRoundTrip ==
  (/\ pc = "csv_done"
   /\ \A i \in 1..Len(loc.input) :
        validateNoControlChars(<<loc.input[i].service, loc.input[i].username,
                                 loc.input[i].password>>))
    => /\ exitCode = Exited(ExitCode.OK)
       /\ loc.records = loc.input

\* a record with a comma in its password: built, then refused by the parser
C15_Witness ==
  /\ pc = "csv_done"
  /\ loc.input = <<[service |-> <<"a">>, username |-> <<"u">>,
                    password |-> <<"p", COMMA, "q">>]>>
  /\ Occurs("parseCsvFileStrict")
  /\ exitCode = Exited(ExitCode.GENERAL_ERROR)
  /\ out = <<[fd |-> "stderr", text |-> <<"invalidImportFormat">>]>>

\* ------------------------------------------------------------------------
\* C16: an import that reads the file the export before it has written, is
\* not declined and meets no storage fault, ends with OK and leaves a store
\* whose (service, username, decrypted password) triples are those the
\* export read. (The store imported into is the one exported from: import
\* replaces every record, and reads the file before it looks at the records.)
Triples(table) ==
  {[service |-> r.service, username |-> r.username, password |-> r.password.ct.p] :
     r \in table.credentials}

C16_ExportImportRoundTrip ==
  (/\ pc = "done" /\ loc.cmd = "import" /\ loc.fromExport
   /\ exitCode # NoExit /\ fault = NoFault
   /\ LastOut # <<"importCanceled">>)
    => /\ exitCode = Exited(ExitCode.OK)
       /\ Triples(Persisted) = pre.expected

\* a password with a comma, stored by add and exported: the import of that
\* file is refused
C16_Witness ==
  /\ pc = "done" /\ loc.cmd = "import" /\ loc.fromExport
  /\ pre.expected = {[service |-> <<"a">>, username |-> <<"u">>,
                      password |-> <<"p", COMMA, "q">>]}
  /\ Triples(Persisted) = pre.expected
  /\ exitCode = Exited(ExitCode.GENERAL_ERROR)
  /\ out = <<[fd |-> "stderr", text |-> <<"invalidImportFormat">>]>>

\* ------------------------------------------------------------------------
\* C17: after every step of an export, a kill of the process included, each
\* path an export can be directed to is as the export found it (missing or
\* with its previous content) or holds the complete CSV of the store; and
\* the only step that changes such a path is the rename of the temporary
\* file, which holds the complete CSV then.
ExportPaths == {path \in Paths : TmpOf(path) \in Paths}
CompleteCsvs ==
  {buildCsv([i \in 1..Len(rows) |->
              [service |-> rows[i].service, username |-> rows[i].username,
               password |-> rows[i].password.ct.p]]).csv :
     rows \in Rows(store.credentials)}

C17_ExportTargetNeverPartial ==
  [][loc'.cmd = "export" =>
       \A path \in ExportPaths :
         /\ fs'[path] = pre'.fs[path] \/ fs'[path] \in CompleteCsvs
         /\ (pc \notin {"idle", "done", "export_path"} /\ fs'[path] # fs[path])
              => /\ pc = "export_rename" /\ path = loc.csvPath
                 /\ fs[TmpOf(path)] = loc.csv /\ loc.csv \in CompleteCsvs
                 /\ fs'[path] = fs[TmpOf(path)]
                 /\ fs'[TmpOf(path)] = Absent]_vars

\* the process was killed in the middle of the write: half of the text is in
\* the temporary file, the target holds what it held
C17_Witness ==
  /\ pc = "done" /\ loc.cmd = "export" /\ exitCode = NoExit
  /\ trace = <<"killed">>
  /\ fs[Target] = OldContent /\ pre.fs[Target] = OldContent
  /\ fs[TmpOf(Target)] \notin CompleteCsvs \cup {Absent, <<>>}
  /\ store.credentials # {}

\* ------------------------------------------------------------------------
\* C18: in an export that finds a file at its target, no step changes a
\* file before the choice has been asked for; a cancelled export leaves all
\* files as found; an export renamed to a numbered path found that path
\* missing, changes that path and its temporary file only, and leaves the
\* target as found; and a step that changes the target belongs to an export
\* that kept the target as its path (overwrite) and has verified the master
\* password.
Running == pc \notin {"idle", "done", "export_path"}

C18_ExportConflictChoice ==
  [][(loc'.cmd = "export" /\ pre'.fs[Target] = OldContent) =>
       /\ (Running /\ fs' # fs) => Occurs("askChoice")
       /\ (pc' = "done" /\ exitCode' # NoExit /\ LastOut' = <<"exportCanceled">>)
            => fs' = pre'.fs
       /\ loc'.csvPath \notin {<<>>, Target}
            => /\ pre'.fs[loc'.csvPath] = Absent
               /\ \A path \in Paths \ {loc'.csvPath, TmpOf(loc'.csvPath)} :
                    fs'[path] = pre'.fs[path]
       /\ (Running /\ fs'[Target] # fs[Target])
            => /\ loc.csvPath = Target
               /\ Occurs("askChoice") /\ Occurs("verifyMasterPassword")
               /\ verifyMasterPassword(loc.masterPw, store)
               /\ fs'[Target] \in CompleteCsvs]_vars

\* the target and the first numbered name exist, the caller chose rename:
\* the CSV is at the second numbered name
C18_Witness ==
  /\ pc = "done" /\ loc.cmd = "export" /\ exitCode = Exited(ExitCode.OK)
  /\ pre.fs[Target] = OldContent /\ pre.fs[Candidate(1)] = OldContent
  /\ loc.csvPath = Candidate(2)
  /\ fs[Target] = OldContent /\ fs[Candidate(1)] = OldContent
  /\ fs[Candidate(2)] \in CompleteCsvs
  /\ store.credentials # {}

\* ------------------------------------------------------------------------
\* C19: in an import that finds records in the store, a step that begins a
\* transaction or changes the store comes after the y/n question and not
\* after a refusal; an import that was declined ends with OK, the store as
\* found and no BEGIN; an import that finds no record is never asked and
\* goes on to BEGIN once the file is parsed.
ImportConfirmed ==
  /\ Occurs("SELECT COUNT")
       => IF pre.tables.credentials # {}
          THEN Occurs("askChoice")
          ELSE ~Occurs("askChoice") /\ (pc = "done" => Occurs("BEGIN"))
  /\ (pc = "done" /\ exitCode # NoExit /\ LastOut = <<"importCanceled">>)
       => /\ exitCode = Exited(ExitCode.OK)
          /\ pre.tables.credentials # {}
          /\ store = pre.tables /\ Persisted = pre.tables
          /\ ~Occurs("BEGIN") /\ ~Occurs("DELETE") /\ ~tx.active

C19_ImportAsksBeforeDelete ==
  [][loc'.cmd = "import" =>
       /\ ImportConfirmed'
       /\ (/\ loc.cmd = "import" /\ pc \notin {"idle", "done"}
           /\ pre.tables.credentials # {}
           /\ (store' # store \/ tx' # tx))
            => /\ Occurs("askChoice")
               /\ \A i \in 1..Len(out) : out[i].text # <<"importCanceled">>]_vars

\* an import into a store with a record, declined
C19_Witness ==
  /\ pc = "done" /\ loc.cmd = "import" /\ exitCode = Exited(ExitCode.OK)
  /\ out = <<[fd |-> "stdout", text |-> <<"importCanceled">>]>>
  /\ Len(loc.records) > 0
  /\ store.credentials # {} /\ store = pre.tables
  /\ ~Occurs("BEGIN")

\* ------------------------------------------------------------------------
\* C20: in every state, in the tables as they are and as the next process
\* will find them, a credential row holds its service, its username and the
\* sealed envelope of its password (nonce, tag and ciphertext made by
\* encrypt under a key derived from a master password and a salt), and a
\* master row holds its id, the SHA-256 fingerprint of such a key and the
\* salt: no row holds a password or a key as it is.
SealedOnly(t) ==
  /\ \A r \in t.credentials :
       /\ DOMAIN r = {"service", "username", "password"}
       /\ DOMAIN r.password = {"iv", "tag", "ct"}
       /\ \E plain \in PasswordVals \cup CommaVals, m \in AllPws, salt \in Salts,
             iv \in Nonces :
            r.password = encrypt(plain, deriveKey(m, salt), iv)
  /\ \A r \in t.master :
       /\ DOMAIN r = {"id", "password_hash", "salt"}
       /\ r.salt \in Salts
       /\ Len(r.password_hash) = 2 /\ r.password_hash[1] = "sha256"
       /\ \E m \in AllPws : r.password_hash[2] = deriveKey(m, r.salt)

C20_StoreHoldsOnlySealed ==
  SealedOnly(store) /\ SealedOnly(tx.snap) /\ SealedOnly(Persisted)

\* after a rotation: records sealed under the new key, the new fingerprint
C20_Witness ==
  /\ pc = "done" /\ loc.cmd = "change-master" /\ exitCode = Exited(ExitCode.OK)
  /\ out[Len(out)].text = <<"masterChanged">>
  /\ Cardinality(store.credentials) = 2
  /\ \E r \in store.credentials : r.password.ct.p \in CommaVals
  /\ \A r \in store.credentials :
       r.password.ct.k = deriveKey(loc.newPw, MasterRow(store).salt)
  /\ ~tx.active

\* ------------------------------------------------------------------------
\* C21: decrypt of the text encrypt returned, under the same key, returns
\* the plaintext; the bytes of that text are the 12 bytes of the nonce, then
\* the 16 bytes of the tag, then the ciphertext, one byte for each UTF-8
\* byte of the plaintext, and decrypt reads them at these offsets.
C21_EnvelopeRoundTrip ==
  (/\ loc.cmd = "crypto" /\ pc \in {"crypto_stored", "crypto_done"}
   /\ ~loc.malformed)
    => LET data == Base64Decode(loc.csv)
           key == deriveKey(loc.masterPw, loc.newSalt)
       IN /\ Len(data) = 12 + 16 + Len(Utf8Encode(loc.password))
          /\ \A j \in 1..12 : data[j] = <<"iv", loc.i, j>>
          /\ \A j \in 13..28 : data[j][1] = "tag" /\ data[j][2] = key /\ data[j][5] = j - 12
          /\ \A j \in 29..Len(data) : data[j][1] = "ct" /\ data[j][3] = j - 28
          /\ (pc = "crypto_done" /\ loc.newPw = loc.masterPw)
               => /\ err = NoErr
                  /\ out = <<[fd |-> "return", text |-> loc.password]>>

\* a plaintext with a two-byte character, sealed and opened again
C21_Witness ==
  /\ loc.cmd = "crypto" /\ pc = "crypto_done" /\ ~loc.malformed
  /\ loc.password = <<EAcute, "q">>
  /\ Len(Base64Decode(loc.csv)) = 31
  /\ loc.newPw = loc.masterPw
  /\ out = <<[fd |-> "return", text |-> <<EAcute, "q">>]>>

\* ------------------------------------------------------------------------
\* C22: decrypt returns a plaintext only for a text exactly as encrypt
\* returned it and under the key it was encrypted with; under another key,
\* or for a text of which a byte was changed or bytes were cut off, it
\* throws and returns nothing.
C22_OpenOnlyWhatWasSealed ==
  (loc.cmd = "crypto" /\ pc = "crypto_done")
    => IF ~loc.malformed /\ loc.newPw = loc.masterPw
       THEN err = NoErr /\ out # <<>>
       ELSE err = SqliteErr("ERR_CRYPTO") /\ out = <<>>

\* the text of an empty password with its last byte cut off: the 15 bytes
\* left of the tag are taken as the tag, and the empty plaintext is returned
C22_Witness ==
  /\ loc.cmd = "crypto" /\ pc = "crypto_done"
  /\ loc.password = <<>> /\ loc.malformed
  /\ Len(Base64Decode(loc.csv)) = 27
  /\ loc.newPw = loc.masterPw
  /\ err = NoErr
  /\ out = <<[fd |-> "return", text |-> <<>>]>>

\* ------------------------------------------------------------------------
\* C23: a message on stderr is a fixed text, or a text that names values of
\* the run (service and username of a duplicate key, the first line of a
\* file with another header, a line number, the text of a storage error);
\* none of the values it names is a password stored, given or imported, a
\* master password given or in force, or a key derived from one. (The
\* values a caller or a file can give are distinct from every password of
\* the model, so a value that is named is not a password by coincidence.)
SecretTexts ==
  {r.password.ct.p :
     r \in store.credentials \cup tx.snap.credentials \cup pre.tables.credentials}
    \cup ({loc.password} \ {<<>>})
    \cup {loc.records[i].password : i \in 1..Len(loc.records)}
    \cup {deriveKey(m, salt) : m \in MasterPws, salt \in Salts}
SecretWords == {pre.master, loc.masterPw, loc.newPw} \ {""}

C24_InitRefusesEmptyPassword ==
  loc.cmd = "init" =>
    /\ (\E n \in 1..Len(out) : out[n].text = <<"emptyPassword">>)
         => /\ out = <<[fd |-> "stderr", text |-> <<"emptyPassword">>]>>
            /\ PreState \in {DbState.NO_DB, DbState.UNINITIALIZED}
            /\ ~Occurs("openDb") /\ ~Occurs("BEGIN") /\ ~Occurs("INSERT")
            /\ dbFile = pre.dbFile
            /\ store = pre.tables /\ Persisted = pre.tables /\ ~tx.active
            /\ store.master = {}
            /\ NowState = PreState
            /\ pc = "done" => exitCode = Exited(ExitCode.USAGE_ERROR)
    /\ (Occurs("openDb") \/ pc = "init_open") => loc.masterPw # ""

\* no database file: init --master "" leaves none
C24_Witness ==
  /\ pc = "done" /\ loc.cmd = "init" /\ loc.shape = "option"
  /\ exitCode = Exited(ExitCode.USAGE_ERROR)
  /\ out = <<[fd |-> "stderr", text |-> <<"emptyPassword">>]>>
  /\ pre.dbFile = FALSE /\ dbFile = FALSE
  /\ NowState = DbState.NO_DB

\* ------------------------------------------------------------------------
\* C25: in every state a status finds, at every step of it, the database
\* file is there only if it was, no transaction is begun and the master row
\* and the credential rows are as found; a status on a READY store that is
\* given no extra argument ends with OK and prints the number of credential
\* rows.
C25_StatusReadOnly ==
  loc.cmd = "status" =>
    /\ dbFile = pre.dbFile /\ integrity = pre.integrity
    /\ store = pre.tables /\ Persisted = pre.tables
    /\ ~tx.active /\ ~Occurs("BEGIN")
    /\ (/\ pc = "done" /\ PreState = DbState.READY
        /\ exitCode \notin {NoExit, Exited(ExitCode.USAGE_ERROR)})
         => /\ exitCode = Exited(ExitCode.OK)
            /\ out = <<[fd |-> "stdout", text |-> <<"initializedYes">>],
                       [fd |-> "stdout",
                        text |-> <<"Entries:", Cardinality(pre.tables.credentials)>>]>>

\* a store of two records, counted
C25_Witness ==
  /\ pc = "done" /\ loc.cmd = "status" /\ exitCode = Exited(ExitCode.OK)
  /\ PreState = DbState.READY
  /\ Cardinality(store.credentials) = 2
  /\ out[2].text = <<"Entries:", 2>>

C27_WrongOldMasterAlwaysFails ==
  (/\ pc = "done" /\ loc.cmd = "change-master" /\ loc.shape = "read"
   /\ PreState = DbState.READY
   /\ exitCode # NoExit)
    => /\ ~verifyMasterPassword(loc.masterPw, pre.tables)
            => /\ exitCode = Exited(ExitCode.AUTH_ERROR)
               /\ LastOut = <<"invalidOldMaster">>
       /\ LastOut = <<"masterUnchanged">> => Occurs("verifyMasterPassword")

\* the old password is wrong and equal to the new one: the run ends with
\* exit code 0 and masterUnchanged, the store was never opened
C27_Witness ==
  /\ pc = "done" /\ loc.cmd = "change-master" /\ loc.shape = "read"
  /\ PreState = DbState.READY
  /\ ~verifyMasterPassword(loc.masterPw, pre.tables)
  /\ loc.newPw = loc.masterPw
  /\ exitCode = Exited(ExitCode.OK)
  /\ LastOut = <<"masterUnchanged">>
  /\ ~Occurs("verifyMasterPassword")

\* ------------------------------------------------------------------------
\* C28: in add, del, import and change-master a transaction is begun, and
\* the stored tables differ from what the run found, only after
\* verifyMasterPassword has accepted the password and the input has passed
\* validation (no control character in the arguments of add, a file that
\* parseCsvFileStrict accepts in import); in export a file is written only
\* after verifyMasterPassword has accepted the password; and a run of one of
\* these commands or of get on a READY store, with well-formed arguments,
\* that has read a password (change-master) or come to the test of it (the
\* others) and whose password is not the master password, ends with exit
\* code 3, no
\* transaction begun, no file written and the tables as it found them.
C28_NoWriteBeforeAuthAndValidation ==
  LET First(event) ==
        IF Occurs(event)
        THEN CHOOSE i \in 1..Len(trace) :
               trace[i] = event /\ \A j \in 1..(i - 1) : trace[j] # event
        ELSE Len(trace) + 1
      Accepted == /\ Occurs("verifyMasterPassword")
                  /\ verifyMasterPassword(loc.masterPw, pre.tables)
      Wrote == Occurs("BEGIN") \/ tx.active \/ store # pre.tables
      Filed == Occurs("writeFileSync") \/ Occurs("renameSync") \/ fs # pre.fs
      Alive == ~Occurs("killed")
  IN /\ (loc.cmd \in {"add", "del", "import", "change-master"} /\ Wrote /\ Alive)
          => /\ Accepted
             /\ First("verifyMasterPassword") < First("BEGIN")
             /\ loc.cmd = "add" =>
                  validateNoControlChars(<<loc.service, loc.username, loc.password>>)
             /\ loc.cmd = "import" =>
                  /\ ~loc.malformed
                  /\ First("parseCsvFileStrict") < First("BEGIN")
     /\ (loc.cmd = "export" /\ Filed /\ Alive)
          => /\ Accepted
             /\ First("verifyMasterPassword") < First("writeFileSync")
     /\ (/\ pc = "done"
         /\ loc.cmd \in {"add", "get", "del", "export", "import", "change-master"}
         /\ PreState = DbState.READY
         /\ exitCode \notin {NoExit, Exited(ExitCode.USAGE_ERROR)}
         /\ LastOut # <<"controlChar">>
         /\ Occurs("verifyMasterPassword") \/ loc.shape = "read"
         /\ ~verifyMasterPassword(loc.masterPw, pre.tables))
          => /\ exitCode = Exited(ExitCode.AUTH_ERROR)
             /\ ~Wrote /\ ~Filed

\* change-master given a wrong old password and the same new password: no
\* write, but exit code 0
C28_Witness ==
  /\ pc = "done" /\ loc.cmd = "change-master" /\ loc.shape = "read"
  /\ PreState = DbState.READY
  /\ pre.tables.credentials # {}
  /\ ~verifyMasterPassword(loc.masterPw, pre.tables)
  /\ exitCode = Exited(ExitCode.OK)
  /\ store = pre.tables /\ ~Occurs("BEGIN")

\* ------------------------------------------------------------------------
\* C29: an import that has passed authentication and validation, has begun
\* its transaction and then fails in an insert (a second row with a key
\* already inserted, or a storage failure) ends with importFailed and exit
\* code 4, and the tables are those the run found: every record that was
\* there is there, unchanged, and none of the file's rows is.
C29_FailedImportRolledBack ==
  (/\ loc.cmd = "import" /\ Occurs("INSERT")
   /\ pc = "done" /\ exitCode # Exited(ExitCode.OK))
    => /\ exitCode = Exited(ExitCode.IO_DB_ERROR)
       /\ LastOut = <<"importFailed">>
       /\ store = pre.tables
       /\ Persisted.credentials = pre.tables.credentials
       /\ ~tx.active

\* the file has two rows with the same (service, username); the first was
\* inserted after the delete of everything, the second was refused
C29_Witness ==
  /\ pc = "done" /\ loc.cmd = "import"
  /\ exitCode = Exited(ExitCode.IO_DB_ERROR)
  /\ LastOut = <<"importFailed">>
  /\ fault = NoFault
  /\ \E i, j \in 1..Len(loc.records) :
       /\ i < j
       /\ loc.records[i].service = loc.records[j].service
       /\ loc.records[i].username = loc.records[j].username
  /\ Cardinality({n \in 1..Len(trace) : trace[n] = "INSERT"}) >= 2
  /\ Occurs("ROLLBACK")
  /\ pre.tables.credentials # {}
  /\ store.credentials = pre.tables.credentials

\* ------------------------------------------------------------------------
\* C30: the state a run's checkDbState gives for the file it finds is NO_DB
\* exactly when there is no file; with a file it is CORRUPTED exactly when
\* the integrity check fails, or one table of the two exists, or master has
\* more than one row; UNINITIALIZED exactly when the check passes and either
\* no table exists or both exist and master has no row; READY exactly when
\* the check passes, both tables exist and master has one row.  A failed
\* integrity check gives CORRUPTED whatever the tables are, and the first
\* line the run writes is the one that state calls for.
C30_ProbeClassifies ==
  (loc.cmd \in ReadyCommands \cup {"init"} /\ Occurs("checkDbState"))
    => LET exists == pre.dbFile
           passes == pre.integrity
           master == pre.tables.hasMaster
           credentials == pre.tables.hasCredentials
           rows == Cardinality(pre.tables.master)
           first == IF out = <<>> THEN <<>> ELSE out[1].text
       IN /\ PreState \in {DbState.NO_DB, DbState.UNINITIALIZED,
                           DbState.CORRUPTED, DbState.READY}
          /\ PreState = DbState.NO_DB <=> ~exists
          /\ PreState = DbState.CORRUPTED
               <=> exists /\ (~passes \/ master # credentials \/ rows > 1)
          /\ PreState = DbState.UNINITIALIZED
               <=> /\ exists /\ passes
                   /\ (~master /\ ~credentials) \/ (master /\ credentials /\ rows = 0)
          /\ PreState = DbState.READY
               <=> exists /\ passes /\ master /\ credentials /\ rows = 1
          /\ (exists /\ ~passes)
               => \A t \in AnyTables :
                    checkDbState(exists, passes, t) = DbState.CORRUPTED
          /\ (pc = "done" /\ exitCode # NoExit) =>
               /\ PreState = DbState.CORRUPTED
                    <=> first = <<"Database corrupted.">>
               /\ PreState = DbState.CORRUPTED
                    => exitCode = Exited(ExitCode.IO_DB_ERROR)
               /\ loc.cmd \in ReadyCommands =>
                    (PreState \in {DbState.NO_DB, DbState.UNINITIALIZED}
                       <=> first = <<"Database not initialized.">>)
               /\ loc.cmd = "init" =>
                    (PreState = DbState.READY <=> first = <<"dbAlreadyInitialized">>)

\* a file that fails the integrity check and has no table: CORRUPTED, not
\* UNINITIALIZED
C30_Witness ==
  /\ pc = "done" /\ loc.cmd = "init"
  /\ pre.dbFile /\ ~pre.integrity
  /\ ~pre.tables.hasMaster /\ ~pre.tables.hasCredentials
  /\ PreState = DbState.CORRUPTED
  /\ exitCode = Exited(ExitCode.IO_DB_ERROR)
  /\ LastOut = <<"Database corrupted.">>

\* ------------------------------------------------------------------------
\* C31: for n records without a control character, buildCsv returns a text
\* of exactly n + 1 lines separated by single LF characters, with no LF at
\* the end, no CR and no byte-order mark; the first line is the header
\* service,username,password and line i + 1 is the service, a comma, the
\* username, a comma and the password of record i, as they are.
C31_BuildCsvLayout ==
  (/\ loc.cmd = "csv" /\ Occurs("buildCsv")
   /\ \A i \in 1..Len(loc.input) :
        validateNoControlChars(<<loc.input[i].service, loc.input[i].username,
                                 loc.input[i].password>>))
    => LET text == loc.csv
           lines == Split(text, LF)
       IN /\ Len(lines) = Len(loc.input) + 1
          /\ lines[1] = CsvHeader
          /\ \A i \in 1..Len(loc.input) :
               lines[i + 1] = loc.input[i].service \o <<COMMA>>
                                \o loc.input[i].username \o <<COMMA>>
                                \o loc.input[i].password
          /\ text # <<>> /\ text[Len(text)] # LF /\ text[1] # BOM
          /\ \A k \in 1..Len(text) : text[k] # CR

\* two records, one with an empty username, one with a comma in a field
C31_Witness ==
  /\ loc.cmd = "csv" /\ pc = "csv_done" /\ Occurs("buildCsv")
  /\ Len(loc.input) = 2
  /\ loc.input[1].username = <<>>
  /\ loc.input[2].password = <<"p", COMMA, "q">>
  /\ Len(Split(loc.csv, LF)) = 3

\* ------------------------------------------------------------------------
\* C32: parseCsvFileStrict, given the text of a file that is there and is
\* named *.csv, returns records exactly when the text has no byte-order mark
\* at its start, no CR, the header as its first line, and after it only
\* lines of exactly three comma-separated fields without tab, CR or LF, but
\* for one empty last line; on every other text it ends the run with an
\* error of exit code 1 and no record is taken from the file.
C32_StrictParserAcceptsExactly ==
  (/\ loc.cmd = "import" /\ Occurs("parseCsvFileStrict") /\ ~Occurs("killed")
   /\ \A n \in 1..Len(out) :
        /\ out[n].text # <<"csvExtensionRequired">>
        /\ out[n].text # <<"csvImportFileNotFound">>
        /\ out[n].text # <<"csvImportSourceIsDirectory">>)
    => LET rejected == \E i \in 1..(Len(trace) - 1) :
                          trace[i] = "parseCsvFileStrict" /\ trace[i + 1] = "exitWith"
       IN /\ rejected <=> loc.malformed
          /\ rejected =>
               /\ loc.records = <<>>
               /\ ~Occurs("BEGIN") /\ store = pre.tables
               /\ out # <<>> /\ out[1].fd = "stderr"
               /\ pc = "done" => exitCode = Exited(ExitCode.GENERAL_ERROR)
          /\ ~rejected =>
               \A i \in 1..Len(loc.records) :
                 validateNoControlChars(<<loc.records[i].service,
                                          loc.records[i].username,
                                          loc.records[i].password>>)

\* accepted: header, two rows and one empty last line
C32_Witness ==
  /\ loc.cmd = "import" /\ pc = "import_confirm"
  /\ ~loc.malformed /\ Len(loc.records) = 2

\* ------------------------------------------------------------------------
\* C33: at every step of add, get, del, list, status, export and import,
\* failed or not, the master row (password_hash and salt) is the one the run
\* found; the master row differs from the one a run found only in an init
\* that found none, or in a change-master with a new password different
\* from the old one that has committed, and that run, unless it is killed,
\* then ends with masterChanged and exit code 0.
C33_MasterRowFrame ==
  /\ loc.cmd \in {"add", "get", "del", "list", "status", "export", "import"}
       => store.master = pre.tables.master /\ Persisted.master = pre.tables.master
  /\ (Persisted.master # pre.tables.master /\ ~Occurs("killed"))
       => \/ loc.cmd = "init" /\ pre.tables.master = {}
          \/ /\ loc.cmd = "change-master"
             /\ loc.newPw # loc.masterPw
             /\ verifyMasterPassword(loc.masterPw, pre.tables)
             /\ Occurs("COMMIT")
             /\ pc = "done" => /\ exitCode = Exited(ExitCode.OK)
                               /\ LastOut = <<"masterChanged">>
  /\ (store.master # pre.tables.master /\ loc.cmd = "change-master"
                                         /\ ~Occurs("killed"))
       => loc.newPw # loc.masterPw /\ Occurs("UPDATE master")

\* an import that replaced every credential and left the master row alone
C33_Witness ==
  /\ pc = "done" /\ loc.cmd = "import" /\ exitCode = Exited(ExitCode.OK)
  /\ store.credentials # pre.tables.credentials
  /\ pre.tables.credentials # {}
  /\ HasMasterRow(store) /\ store.master = pre.tables.master

\* ------------------------------------------------------------------------
\* C34: an import on a READY store whose path names a *.csv file that is
\* there and whose text fails the validation ends with the validation
\* failure (exit code 1, a message of parseCsvFileStrict), whether the master
\* password given is the right one or not: the file is parsed before the
\* password is verified.
C34_ImportValidatesBeforeAuth ==
  (/\ loc.cmd = "import" /\ loc.fileBad
   /\ pc = "done" /\ exitCode # NoExit)
    => /\ exitCode = Exited(ExitCode.GENERAL_ERROR)
       /\ LastOut # <<"authFailed">>
       /\ Occurs("parseCsvFileStrict")
       /\ \A i, j \in 1..Len(trace) :
            (trace[i] = "verifyMasterPassword" /\ trace[j] = "parseCsvFileStrict")
              => j < i

\* a malformed file and a wrong password: authFailed, exit code 3, the file
\* never read
C34_Witness ==
  /\ loc.cmd = "import" /\ loc.fileBad
  /\ pc = "done" /\ exitCode = Exited(ExitCode.AUTH_ERROR)
  /\ LastOut = <<"authFailed">>
  /\ ~verifyMasterPassword(loc.masterPw, pre.tables)
  /\ ~Occurs("parseCsvFileStrict")

\* ------------------------------------------------------------------------
\* C35: a change-master that is given the right old password and no new
\* password, or an empty one, ends with an error and with the master row and
\* every credential row as it found them; no store holds a master row that
\* the empty password opens.
C35_NoEmptyNewMaster ==
  /\ (/\ loc.cmd = "change-master" /\ loc.shape = "read"
      /\ PreState = DbState.READY
      /\ verifyMasterPassword(loc.masterPw, pre.tables)
      /\ loc.newPw = ""
      /\ pc = "done" /\ exitCode # NoExit)
       => /\ exitCode \in FailureCodes
          /\ store = pre.tables
  /\ HasMasterRow(Persisted) => ~verifyMasterPassword("", Persisted)

\* --new-master left out and Enter pressed at both prompts: masterChanged,
\* and the empty password opens the store
C35_Witness ==
  /\ loc.cmd = "change-master" /\ loc.shape = "read"
  /\ pc = "done" /\ exitCode = Exited(ExitCode.OK)
  /\ LastOut = <<"masterChanged">>
  /\ loc.masterPw # "" /\ loc.newPw = ""
  /\ verifyMasterPassword(loc.masterPw, pre.tables)
  /\ Occurs("askPassword")
  /\ pre.tables.credentials # {}
  /\ verifyMasterPassword("", store)
  /\ store.master # pre.tables.master

\* ------------------------------------------------------------------------
\* C36: whenever the database file is READY (what the next process to open
\* it finds, at every step of every run of init, add, del, import and
\* change-master, failed, rolled back or killed included), one password
\* verifies against the master row and every stored password opens under the
\* key derived from that password and the stored salt; between two runs that
\* password is the one the last successful init or change-master set.
C36_KeyConsistency ==
  NowState = DbState.READY =>
    /\ \E m \in AllPws :
         /\ verifyMasterPassword(m, Persisted)
         /\ \A r \in Persisted.credentials :
              decrypt(r.password, deriveKey(m, getMasterSalt(Persisted))).ok
    /\ pc \in {"idle", "done"} =>
         /\ verifyMasterPassword(CurrentMaster, Persisted)
         /\ \A r \in Persisted.credentials :
              decrypt(r.password,
                      deriveKey(CurrentMaster, getMasterSalt(Persisted))).ok

\* after a rotation to another password and another salt, with two records
C36_Witness ==
  /\ pc = "done" /\ loc.cmd = "change-master" /\ exitCode = Exited(ExitCode.OK)
  /\ LastOut = <<"masterChanged">>
  /\ NowState = DbState.READY
  /\ Cardinality(store.credentials) = 2
  /\ getMasterSalt(store) # getMasterSalt(pre.tables)
  /\ \A r \in store.credentials :
       /\ decrypt(r.password, deriveKey(loc.newPw, getMasterSalt(store))).ok
       /\ ~decrypt(r.password, deriveKey(loc.masterPw, getMasterSalt(pre.tables))).ok

\* ------------------------------------------------------------------------
\* C37: in every state, no row of credentials, committed or not, has a tab,
\* CR or LF in its service, its username or the password its envelope
\* holds; and no export ends with the controlChar message of buildCsv.
C37_NoControlCharStored ==
  /\ \A t \in {store, Persisted} : \A r \in t.credentials :
       /\ ~HasControlChar(r.service)
       /\ ~HasControlChar(r.username)
       /\ ~HasControlChar(r.password.ct.p)
  /\ loc.cmd = "export" =>
       \A n \in 1..Len(out) : out[n].text # <<"controlChar">>

\* an export of two records that got through buildCsv, in a history where
\* an add with a tab in a value was refused
C37_Witness ==
  /\ loc.cmd = "export" /\ Occurs("buildCsv")
  /\ pc = "done" /\ exitCode = Exited(ExitCode.OK)
  /\ Cardinality(store.credentials) = 2
  /\ \A r \in store.credentials : ~HasControlChar(r.password.ct.p)

\* ------------------------------------------------------------------------
\* C38: once exitWith has written its message and thrown {code}, the only
\* step the run takes is the end of the process with that code: no further
\* message is written, no further statement changes what the file holds,
\* and no second exitWith replaces the first (a kill of the process apart).
C38_OneTerminalOutcome ==
  [][err.kind = "exit" =>
       \/ pc' = "done" /\ exitCode' = NoExit
       \/ /\ pc' = "done"
          /\ exitCode' = Exited(err.code)
          /\ out' = out
          /\ Persisted' = Persisted
          /\ trace' = Append(trace, "exit")]_vars

\* del of a key that is not there: exitWith(GENERAL_ERROR, entryNotFound)
\* inside the try block, then ROLLBACK and a second exitWith in the catch
C38_Witness ==
  /\ loc.cmd = "del" /\ pc = "main_catch"
  /\ err = ExitErr(ExitCode.IO_DB_ERROR)
  /\ Cardinality({i \in 1..Len(trace) : trace[i] = "exitWith"}) = 2
  /\ Len(out) = 2
  /\ out[1].text = <<"entryNotFound">>
  /\ trace[Len(trace) - 1] = "ROLLBACK"

\* ------------------------------------------------------------------------
\* C39: when the stream has ended, the lines handed to lineParser, in the
\* order of the calls, are the lines of the decompressed text: the pieces
\* between its LF characters, with a last piece after the final LF when it
\* is not empty; this is so however the bytes were cut into chunks.
C39_LinesIndependentOfChunks ==
  (loc.cmd = "log" /\ pc = "log_done")
    => LET pieces == Split(Utf8Decode(loc.input), LF)
           expected == IF pieces[Len(pieces)] = <<>>
                       THEN SubSeq(pieces, 1, Len(pieces) - 1) ELSE pieces
       IN loc.lines = expected

\* a chunk ends between the two bytes of one character: the line handed to
\* lineParser holds two replacement characters in its place
C39_Witness ==
  /\ loc.cmd = "log" /\ pc = "log_done"
  /\ loc.input = <<"a", "0xC3", "0xA9", LF>>
  /\ trace = <<"data", "data", "end">>
  /\ loc.lines = <<<<"a", "U+FFFD", "U+FFFD">>>>

====
